---- MODULE Spec2Model ----
(***************************************************************************)
(* Fake-job detection: the risk scoring engine.                            *)
(*                                                                         *)
(* Texts are TLA+ strings and are scanned character by character, as the   *)
(* Python code scans them.  Real numbers (scores, ratios, confidences) are *)
(* fixed-point integers in millionths: 0.5 is 500000.                      *)
(***************************************************************************)
EXTENDS Integers, Sequences, FiniteSets, TLC

\* ------------------------------------------------------------------------
\* State
\* ------------------------------------------------------------------------

VARIABLES
  analyzer_global, \* routes._analyzer: "None" or the JobAnalyzer it refers to
  instances,       \* the attributes of every JobAnalyzer created so far
  environment,     \* what the process finds installed: the sentiment library
                   \* and the trained model file
  frames,          \* per worker: where its request is and its local variables
  scored,          \* the assessments returned so far, in order, with their postings
  calls,           \* the number of requests accepted so far
  pred_features,   \* the feature set handed to _fast_prediction
  pred_flags,      \* the finding list handed to it
  pred_result,     \* the assessment built from its confidence
  pred_quality,    \* the quality score and grade of that assessment
  scan_frags,      \* the text handed to count_red_flags, as fragment numbers
  scan_result,     \* what count_red_flags returned for that text
  scan_prev,       \* what it returned for the text before the last insertion
  scan_op,         \* the kind of the last insertion
  feat_job_data,   \* the job posting handed to extract_all_features
  feat_features,   \* the feature set it returned, as _analyze_job_data holds it
  feat_scan,       \* what count_red_flags returned for the posting's description
  feat_result,     \* the assessment _analyze_job_data made of the posting
  http_flask,      \* the Flask release the application runs on
  http_analyzer,   \* routes._analyzer: whether the JobAnalyzer was created
  http_session,    \* per client: the session its cookie carries
  http_served,     \* the clients /api/analyze has answered with 200
  http_last,       \* the last request answered, with its reply
  quality_text,    \* the text handed to analyze_quality
  quality_report,  \* its score, its severity and the quality returned
  domain_name,     \* the domain handed to utils.domain_check
  domain_lookup,   \* what the registration lookup gives for it
  domain_report,   \* what is_suspicious_domain and check_domain_reputation did
  flags_text,      \* the text handed to count_red_flags
  flags_scan,      \* what count_red_flags recorded and returned for it
  sev_red_flags,   \* the findings handed to _assess_severity
  sev_score,       \* the confidence handed to it
  sev_returned,    \* the severity it returned for them
  sus_domain,      \* company_domain handed to extract_domain_features
  sus_name,        \* company_name handed to extract_domain_features
  sus_features,    \* what extract_domain_features returned
  legit_company,   \* company_name handed to verify_company_legitimacy
  legit_domain,    \* the domain handed to it
  legit_lookup,    \* what the whois lookup of the domain comes to
  legit_report     \* what verify_company_legitimacy returned


\* ------------------------------------------------------------------------
\* Characters and strings (Python str methods and the re character classes)
\* ------------------------------------------------------------------------

UpperChars == <<"A","B","C","D","E","F","G","H","I","J","K","L","M",
                "N","O","P","Q","R","S","T","U","V","W","X","Y","Z">>
LowerChars == <<"a","b","c","d","e","f","g","h","i","j","k","l","m",
                "n","o","p","q","r","s","t","u","v","w","x","y","z">>
DigitChars == {"0","1","2","3","4","5","6","7","8","9"}
SpaceChars == {" ", "\n", "\t", "\r"}

UpperSet == {UpperChars[i] : i \in 1..26}
LowerSet == {LowerChars[i] : i \in 1..26}

\* c.isdigit(), the classes \s, \d and \w of re
IsDigit(c) == c \in DigitChars
IsSpace(c) == c \in SpaceChars
IsWordChar(c) == c \in UpperSet \cup LowerSet \cup DigitChars \cup {"_"}

CharAt(s, i) == SubSeq(s, i, i)

\* c.lower() for one character
LowerChar(c) ==
  IF c \in UpperSet
    THEN LowerChars[CHOOSE i \in 1..26 : UpperChars[i] = c]
    ELSE c

\* str.lower(), for the characters lo..hi of s
RECURSIVE LowerBetween(_, _, _)
LowerBetween(s, lo, hi) ==
  IF lo > hi THEN ""
  ELSE IF lo = hi THEN LowerChar(CharAt(s, lo))
  ELSE LET mid == (lo + hi) \div 2
       IN LowerBetween(s, lo, mid) \o LowerBetween(s, mid + 1, hi)
Lower(s) == LowerBetween(s, 1, Len(s))

\* re.sub(r'[^\w\s]', ' ', s)
CleanChar(c) == IF IsWordChar(c) \/ IsSpace(c) THEN c ELSE " "
RECURSIVE CleanBetween(_, _, _)
CleanBetween(s, lo, hi) ==
  IF lo > hi THEN ""
  ELSE IF lo = hi THEN CleanChar(CharAt(s, lo))
  ELSE LET mid == (lo + hi) \div 2
       IN CleanBetween(s, lo, mid) \o CleanBetween(s, mid + 1, hi)
StripPunctuation(s) == CleanBetween(s, 1, Len(s))

\* sub in s (Python substring test)
Contains(s, sub) ==
  \E i \in 1..(Len(s) - Len(sub) + 1) : SubSeq(s, i, i + Len(sub) - 1) = sub

\* s.endswith(suffix)
EndsWith(s, suffix) ==
  /\ Len(suffix) <= Len(s)
  /\ SubSeq(s, Len(s) - Len(suffix) + 1, Len(s)) = suffix

\* sum(1 for c in s if c in chars)
CountIn(s, chars) == Cardinality({i \in 1..Len(s) : CharAt(s, i) \in chars})

\* the first position from i on whose character is in chars (is not in
\* chars), Len(s) + 1 when there is none
FirstIn(s, i, chars) ==
  LET hits == {j \in i..Len(s) : CharAt(s, j) \in chars}
  IN IF hits = {} THEN Len(s) + 1 ELSE CHOOSE j \in hits : \A k \in hits : j <= k
FirstNotIn(s, i, chars) ==
  LET hits == {j \in i..Len(s) : CharAt(s, j) \notin chars}
  IN IF hits = {} THEN Len(s) + 1 ELSE CHOOSE j \in hits : \A k \in hits : j <= k

\* s.split(): the maximal runs of non-whitespace characters
Split(s) ==
  LET RECURSIVE From(_)
      From(i) ==
        LET start == FirstNotIn(s, i, SpaceChars)
            stop  == FirstIn(s, start, SpaceChars)
        IN IF start > Len(s) THEN <<>>
           ELSE <<SubSeq(s, start, stop - 1)>> \o From(stop)
  IN From(1)

\* re.split(r'[.!?]+', s): the pieces between the runs of . ! ?, the empty
\* pieces before the first run and after the last one included
SentenceEnds == {".", "!", "?"}
SplitSentences(s) ==
  LET RECURSIVE From(_)
      From(i) ==
        LET stop == FirstIn(s, i, SentenceEnds)
        IN IF stop > Len(s) THEN <<SubSeq(s, i, Len(s))>>
           ELSE <<SubSeq(s, i, stop - 1)>> \o From(FirstNotIn(s, stop, SentenceEnds))
  IN From(1)

\* s.strip()
RECURSIVE LStrip(_)
LStrip(s) == IF s # "" /\ IsSpace(CharAt(s, 1)) THEN LStrip(Tail(s)) ELSE s
RECURSIVE RStrip(_)
RStrip(s) ==
  IF s # "" /\ IsSpace(CharAt(s, Len(s)))
    THEN RStrip(SubSeq(s, 1, Len(s) - 1)) ELSE s
Strip(s) == LStrip(RStrip(s))

\* sum of a sequence of integers
RECURSIVE SumSeq(_)
SumSeq(xs) == IF xs = <<>> THEN 0 ELSE Head(xs) + SumSeq(Tail(xs))

Min(a, b) == IF a <= b THEN a ELSE b
Max(a, b) == IF a >= b THEN a ELSE b

\* ------------------------------------------------------------------------
\* Regular expressions: the subset of re syntax that pattern_flags uses.
\* Ends(x, s, p) lists the positions at which a match of x starting at
\* position p of s can end, in the order in which re's backtracking tries
\* them; the first one is the match re reports.
\* ------------------------------------------------------------------------

Lit(str)       == [k |-> "lit", s |-> str]
Ws             == [k |-> "ws"]
Dg             == [k |-> "dg"]
AnyChar        == [k |-> "any"]
OneOf(cs)      == [k |-> "in", cs |-> cs]
Cat(parts)     == [k |-> "cat", xs |-> parts]
Alt(branches)  == [k |-> "alt", xs |-> branches]
Words(ws)      == [k |-> "alt", xs |-> [i \in 1..Len(ws) |-> Lit(ws[i])]]
Rep(x, lo, hi) == [k |-> "rep", x |-> x, lo |-> lo, hi |-> hi]
AtLeast(x, lo) == [k |-> "rep", x |-> x, lo |-> lo, hi |-> -1]
Star(x)        == AtLeast(x, 0)
Plus(x)        == AtLeast(x, 1)
Opt(x)         == Rep(x, 0, 1)
NotAhead(x)    == [k |-> "nla", x |-> x]

RECURSIVE Ends(_, _, _)
RECURSIVE CatEnds(_, _, _, _)
RECURSIVE AltEnds(_, _, _, _)
RECURSIVE RepEnds(_, _, _, _)
RECURSIVE EachEnd(_, _, _, _, _)

\* the ends of parts[i..] from each start in starts, in order
EachEnd(starts, j, parts, i, s) ==
  IF j > Len(starts) THEN <<>>
  ELSE CatEnds(parts, i, s, starts[j]) \o EachEnd(starts, j + 1, parts, i, s)

CatEnds(parts, i, s, p) ==
  IF i > Len(parts) THEN <<p>>
  ELSE EachEnd(Ends(parts[i], s, p), 1, parts, i + 1, s)

AltEnds(branches, i, s, p) ==
  IF i > Len(branches) THEN <<>>
  ELSE Ends(branches[i], s, p) \o AltEnds(branches, i + 1, s, p)

\* greedy repetition: one more iteration is tried before stopping here
RepEnds(r, n, s, p) ==
  LET more == IF r.hi = -1 \/ n < r.hi
                THEN LET es == Ends(r.x, s, p)
                         RECURSIVE After(_)
                         After(j) ==
                           IF j > Len(es) THEN <<>>
                           ELSE (IF es[j] > p THEN RepEnds(r, n + 1, s, es[j])
                                 ELSE <<>>) \o After(j + 1)
                     IN After(1)
                ELSE <<>>
  IN more \o (IF n >= r.lo THEN <<p>> ELSE <<>>)

Ends(x, s, p) ==
  CASE x.k = "lit" ->
         IF p + Len(x.s) - 1 <= Len(s) /\ SubSeq(s, p, p + Len(x.s) - 1) = x.s
           THEN <<p + Len(x.s)>> ELSE <<>>
    [] x.k = "ws"  -> IF p <= Len(s) /\ IsSpace(CharAt(s, p)) THEN <<p + 1>> ELSE <<>>
    [] x.k = "dg"  -> IF p <= Len(s) /\ IsDigit(CharAt(s, p)) THEN <<p + 1>> ELSE <<>>
    [] x.k = "any" -> IF p <= Len(s) /\ CharAt(s, p) # "\n" THEN <<p + 1>> ELSE <<>>
    [] x.k = "in"  -> IF p <= Len(s) /\ CharAt(s, p) \in x.cs THEN <<p + 1>> ELSE <<>>
    [] x.k = "cat" -> CatEnds(x.xs, 1, s, p)
    [] x.k = "alt" -> AltEnds(x.xs, 1, s, p)
    [] x.k = "rep" -> RepEnds(x, 0, s, p)
    [] x.k = "nla" -> IF Ends(x.x, s, p) = <<>> THEN <<p>> ELSE <<>>

\* the least element of a non-empty set of integers
Least(S) == CHOOSE m \in S : \A n \in S : m <= n

\* min(len(re.findall(x, s)), 2): the matches are found left to right and
\* do not overlap; count_red_flags only asks whether there is a match and
\* whether there is more than one
FindAll2(x, s) ==
  LET starts == {p \in 1..(Len(s) + 1) : Ends(x, s, p) # <<>>}
      first  == Least(starts)
      stop   == Head(Ends(x, s, first))
      resume == IF stop > first THEN stop ELSE first + 1
  IN IF starts = {} THEN 0
     ELSE IF \E p \in starts : p >= resume THEN 2
     ELSE 1

\* critical_flags: red_flags.py lines 15-54 (phrase, weight), in dictionary order
critical_flags ==
  << <<"registration fee", 4>>,
     <<"pay fee", 4>>,
     <<"payment required", 4>>,
     <<"upfront payment", 4>>,
     <<"processing fee", 4>>,
     <<"application fee", 4>>,
     <<"training fee", 4>>,
     <<"deposit required", 4>>,
     <<"money transfer", 4>>,
     <<"western union", 4>>,
     <<"wire transfer", 4>>,
     <<"bitcoin", 4>>,
     <<"cryptocurrency", 4>>,
     <<"blockchain investment", 4>>,
     <<"crypto investment", 4>>,
     <<"guaranteed income", 4>>,
     <<"guaranteed job", 4>>,
     <<"earn $", 4>>,
     <<"earn <rupee>", 4>>,
     <<"make money fast", 4>>,
     <<"easy money", 4>>,
     <<"get rich quick", 4>>,
     <<"no interview", 4>>,
     <<"no interview process", 4>>,
     <<"no assessment", 4>>,
     <<"skip interview", 4>>,
     <<"instant hire", 4>>,
     <<"instant approval", 4>>,
     <<"no verification", 4>>,
     <<"no background check", 4>>,
     <<"no experience needed", 4>>,
     <<"no qualification needed", 4>>,
     <<"no degree required", 4>>,
     <<"fake degree accepted", 4>>,
     <<"forged documents", 4>>,
     <<"illegal work", 4>>,
     <<"underground job", 4>>,
     <<"black market", 4>> >>

\* high_risk_flags: red_flags.py lines 57-106 (phrase, weight), in dictionary order
high_risk_flags ==
  << <<"work from home guaranteed", 3>>,
     <<"urgent hiring", 3>>,
     <<"urgent recruitment", 3>>,
     <<"limited time offer", 3>>,
     <<"limited positions", 3>>,
     <<"act now", 3>>,
     <<"don't miss", 3>>,
     <<"don't delay", 3>>,
     <<"hurry up", 3>>,
     <<"apply immediately", 3>>,
     <<"apply asap", 3>>,
     <<"freshers welcome", 3>>,
     <<"guaranteed placement", 3>>,
     <<"100% job guarantee", 3>>,
     <<"click here", 3>>,
     <<"click link", 3>>,
     <<"copy paste", 3>>,
     <<"copy-paste", 3>>,
     <<"home based", 3>>,
     <<"part time", 3>>,
     <<"passive income", 3>>,
     <<"side hustle", 3>>,
     <<"extra income", 3>>,
     <<"earn while you", 3>>,
     <<"earn from home", 3>>,
     <<"work from anywhere", 3>>,
     <<"flexible hours", 3>>,
     <<"own boss", 3>>,
     <<"be your own boss", 3>>,
     <<"whatsapp", 3>>,
     <<"telegram", 3>>,
     <<"viber", 3>>,
     <<"skype", 3>>,
     <<"contact via whatsapp", 3>>,
     <<"contact via telegram", 3>>,
     <<"dm only", 3>>,
     <<"dm for details", 3>>,
     <<"message for details", 3>>,
     <<"inbox for details", 3>>,
     <<"typing work", 3>>,
     <<"online typing", 3>>,
     <<"form filling", 3>>,
     <<"captcha entry", 3>>,
     <<"micro task", 3>>,
     <<"crowdsource", 3>>,
     <<"freelance platform", 3>>,
     <<"upwork alternative", 3>>,
     <<"fiverr competitor", 3>> >>

\* medium_risk_flags: red_flags.py lines 109-145 (phrase, weight), in dictionary order
medium_risk_flags ==
  << <<"no interview required", 1>>,
     <<"phone interview only", 1>>,
     <<"online interview", 1>>,
     <<"no office visit", 1>>,
     <<"remote only", 1>>,
     <<"work anywhere", 1>>,
     <<"multilevel marketing", 1>>,
     <<"mlm", 1>>,
     <<"network marketing", 1>>,
     <<"pyramid scheme", 1>>,
     <<"referral bonus", 1>>,
     <<"referral commission", 1>>,
     <<"recruitment bonus", 1>>,
     <<"refer friends", 1>>,
     <<"refer and earn", 1>>,
     <<"get commission", 1>>,
     <<"commission only", 1>>,
     <<"no salary", 1>>,
     <<"performance based", 1>>,
     <<"variable pay", 1>>,
     <<"bonus heavy", 1>>,
     <<"incentive based", 1>>,
     <<"data entry", 1>>,
     <<"typing job", 1>>,
     <<"transcription", 1>>,
     <<"surveys", 1>>,
     <<"online jobs", 1>>,
     <<"internet job", 1>>,
     <<"online work", 1>>,
     <<"part time online", 1>>,
     <<"freelance", 1>>,
     <<"contract", 1>>,
     <<"temporary", 1>>,
     <<"gig", 1>>,
     <<"gig economy", 1>> >>

\* pattern_flags: red_flags.py lines 148-242; each entry is (pattern, weight, description)
pattern_flags ==
  <<
  \* r'\$\s*\d{4,6}\s*(?:per|daily|weekly|monthly|guaranteed|hour)'
     [re |-> Cat(<<Lit("$"), Star(Ws), Rep(Dg, 4, 6), Star(Ws), Words(<<"per", "daily", "weekly", "monthly", "guaranteed", "hour">>)>>),
      weight |-> 3, description |-> "Unrealistic high income promise"],
  \* r'<rupee>\s*\d{5,7}\s*(?:per|daily|weekly|monthly|guaranteed|hour)'
     [re |-> Cat(<<Lit("<rupee>"), Star(Ws), Rep(Dg, 5, 7), Star(Ws), Words(<<"per", "daily", "weekly", "monthly", "guaranteed", "hour">>)>>),
      weight |-> 3, description |-> "Unrealistic high income promise"],
  \* r'(?:earn|make|get|receive)\s+\$?\d{4,}\s*(?:per|daily|weekly|guaranteed)'
     [re |-> Cat(<<Words(<<"earn", "make", "get", "receive">>), Plus(Ws), Opt(Lit("$")), AtLeast(Dg, 4), Star(Ws), Words(<<"per", "daily", "weekly", "guaranteed">>)>>),
      weight |-> 3, description |-> "Unrealistic earnings claim"],
  \* r'(?:earn|make|get|receive)\s+<rupee>\d{5,}\s*(?:per|daily|weekly|guaranteed)'
     [re |-> Cat(<<Words(<<"earn", "make", "get", "receive">>), Plus(Ws), Lit("<rupee>"), AtLeast(Dg, 5), Star(Ws), Words(<<"per", "daily", "weekly", "guaranteed">>)>>),
      weight |-> 3, description |-> "Unrealistic earnings claim"],
  \* r'(?:salary|pay|income|compensation)\s*(?:of|is|:)\s*\$?\d{4,}'
     [re |-> Cat(<<Words(<<"salary", "pay", "income", "compensation">>), Star(Ws), Words(<<"of", "is", ":">>), Star(Ws), Opt(Lit("$")), AtLeast(Dg, 4)>>),
      weight |-> 2, description |-> "Suspicious salary mention"],
  \* r'(?:salary|pay|income|compensation)\s*(?:of|is|:)\s*<rupee>\d{5,}'
     [re |-> Cat(<<Words(<<"salary", "pay", "income", "compensation">>), Star(Ws), Words(<<"of", "is", ":">>), Star(Ws), Lit("<rupee>"), AtLeast(Dg, 5)>>),
      weight |-> 2, description |-> "Suspicious salary mention"],
  \* r'(?:work|job)\s+\d+\s*(?:hour|hrs|hour per|hours per)\s*(?:day|week|month)'
     [re |-> Cat(<<Words(<<"work", "job">>), Plus(Ws), Plus(Dg), Star(Ws), Lit("h"), Words(<<"our", "rs", "our per", "ours per">>), Star(Ws), Words(<<"day", "week", "month">>)>>),
      weight |-> 2, description |-> "Suspicious work schedule"],
  \* r'(?:only|just|mere)\s*\d+\s*(?:hour|hrs)\s+(?:per|daily|day)'
     [re |-> Cat(<<Words(<<"only", "just", "mere">>), Star(Ws), Plus(Dg), Star(Ws), Lit("h"), Words(<<"our", "rs">>), Plus(Ws), Words(<<"per", "daily", "day">>)>>),
      weight |-> 2, description |-> "Unrealistic work hours"],
  \* r'(?:work\s+)?(?:from|in)\s+(?:car|coffee|cafe|bed|anywhere)\s*(?:and|or|with)?\s*(?:no|without)\s*(?:supervision|boss|manager)'
     [re |-> Cat(<<Opt(Cat(<<Lit("work"), Plus(Ws)>>)), Words(<<"from", "in">>), Plus(Ws), Words(<<"car", "coffee", "cafe", "bed", "anywhere">>), Star(Ws), Opt(Words(<<"and", "or", "with">>)), Star(Ws), Words(<<"no", "without">>), Star(Ws), Words(<<"supervision", "boss", "manager">>)>>),
      weight |-> 3, description |-> "Unprofessional work location"],
  \* r'(?:work\s+)?(?:from|in)\s+(?:car|coffee|cafe|bed|anywhere)\s+(?:only|exclusively|strictly)'
     [re |-> Cat(<<Opt(Cat(<<Lit("work"), Plus(Ws)>>)), Words(<<"from", "in">>), Plus(Ws), Words(<<"car", "coffee", "cafe", "bed", "anywhere">>), Plus(Ws), Words(<<"only", "exclusively", "strictly">>)>>),
      weight |-> 2, description |-> "Unprofessional work location"],
  \* r'(?:call|contact|reach|whatsapp|text|message)\s+(?:us|me|this number|\+?\d{10,})'
     [re |-> Cat(<<Words(<<"call", "contact", "reach", "whatsapp", "text", "message">>), Plus(Ws), Alt(<<Lit("us"), Lit("me"), Lit("this number"), Cat(<<Opt(Lit("+")), AtLeast(Dg, 10)>>)>>)>>),
      weight |-> 2, description |-> "Direct contact emphasis"],
  \* r'(?:only|strictly|exclusively)\s+(?:whatsapp|telegram|call|text|phone)'
     [re |-> Cat(<<Words(<<"only", "strictly", "exclusively">>), Plus(Ws), Words(<<"whatsapp", "telegram", "call", "text", "phone">>)>>),
      weight |-> 3, description |-> "Non-standard contact method"],
  \* r'(?:send|text|message|dm|inbox)\s+(?:me|us|this number)(?!\s+(?:roles|jobs|updates|notifications))'
     [re |-> Cat(<<Words(<<"send", "text", "message", "dm", "inbox">>), Plus(Ws), Words(<<"me", "us", "this number">>), NotAhead(Cat(<<Plus(Ws), Words(<<"roles", "jobs", "updates", "notifications">>)>>))>>),
      weight |-> 2, description |-> "Personal contact request"],
  \* r'(?:whatsapp|telegram|skype|viber)\s+(?:only|required|mandatory)'
     [re |-> Cat(<<Words(<<"whatsapp", "telegram", "skype", "viber">>), Plus(Ws), Words(<<"only", "required", "mandatory">>)>>),
      weight |-> 3, description |-> "Communication restriction"],
  \* r'(?:must|immediately|urgently|asap|now)\s+(?:join|start|begin|apply)'
     [re |-> Cat(<<Words(<<"must", "immediately", "urgently", "asap", "now">>), Plus(Ws), Words(<<"join", "start", "begin", "apply">>)>>),
      weight |-> 2, description |-> "Pressure to join quickly"],
  \* r'(?:only|limited|few)\s+\d+\s+(?:position|seat|spot|vacancy|opening)'
     [re |-> Cat(<<Words(<<"only", "limited", "few">>), Plus(Ws), Plus(Dg), Plus(Ws), Words(<<"position", "seat", "spot", "vacancy", "opening">>)>>),
      weight |-> 2, description |-> "Artificial scarcity"],
  \* r'(?:last|final|ending)\s+(?:chance|opportunity|date)'
     [re |-> Cat(<<Words(<<"last", "final", "ending">>), Plus(Ws), Words(<<"chance", "opportunity", "date">>)>>),
      weight |-> 2, description |-> "Deadline pressure"],
  \* r'(?:don\'?t\s+(?:miss|delay|wait)|hurry\s+up|act\s+now)'
     [re |-> Alt(<<Cat(<<Lit("don"), Opt(Lit("'")), Lit("t"), Plus(Ws), Words(<<"miss", "delay", "wait">>)>>), Cat(<<Lit("hurry"), Plus(Ws), Lit("up")>>), Cat(<<Lit("act"), Plus(Ws), Lit("now")>>)>>),
      weight |-> 2, description |-> "Urgency language"],
  \* r'(?:no|not|without|skip)\s+(?:background check|verification|interview|assessment)'
     [re |-> Cat(<<Words(<<"no", "not", "without", "skip">>), Plus(Ws), Words(<<"background check", "verification", "interview", "assessment">>)>>),
      weight |-> 3, description |-> "Skipping verification"],
  \* r'(?:fake|forged|photocopy)\s+(?:documents?|certificates?|degrees?)'
     [re |-> Cat(<<Words(<<"fake", "forged", "photocopy">>), Plus(Ws), Alt(<<Cat(<<Lit("document"), Opt(Lit("s"))>>), Cat(<<Lit("certificate"), Opt(Lit("s"))>>), Cat(<<Lit("degree"), Opt(Lit("s"))>>)>>)>>),
      weight |-> 4, description |-> "Document fraud acceptance"],
  \* r'(?:any|no|fake)\s+(?:degree|qualification|experience)\s+(?:accepted|required)'
     [re |-> Cat(<<Words(<<"any", "no", "fake">>), Plus(Ws), Words(<<"degree", "qualification", "experience">>), Plus(Ws), Words(<<"accepted", "required">>)>>),
      weight |-> 3, description |-> "Fake credentials acceptance"],
  \* r'(?:requirement|requirement|only|prefer)[:.]?\s*(?:age|gender|caste|religion|marital)'
     [re |-> Cat(<<Words(<<"requirement", "requirement", "only", "prefer">>), Opt(OneOf({":", "."})), Star(Ws), Words(<<"age", "gender", "caste", "religion", "marital">>)>>),
      weight |-> 3, description |-> "Discriminatory posting"],
  \* r'(?:male|female|boy|girl)\s+(?:only|preferred|required)'
     [re |-> Cat(<<Words(<<"male", "female", "boy", "girl">>), Plus(Ws), Words(<<"only", "preferred", "required">>)>>),
      weight |-> 3, description |-> "Gender discrimination"],
  \* r'(?:illegal|underground|black market|grey market)'
     [re |-> Words(<<"illegal", "underground", "black market", "grey market">>),
      weight |-> 4, description |-> "Illegal work mention"],
  \* r'(?:investment|deposit|fee|payment)\s+(?:required|needed|mandatory)'
     [re |-> Cat(<<Words(<<"investment", "deposit", "fee", "payment">>), Plus(Ws), Words(<<"required", "needed", "mandatory">>)>>),
      weight |-> 4, description |-> "Investment required"],
  \* r'(?:refundable|returnable|guaranteed return)'
     [re |-> Words(<<"refundable", "returnable", "guaranteed return">>),
      weight |-> 3, description |-> "Investment promise"],
  \* r'(?:bitcoin|crypto|blockchain)\s+(?:investment|required|needed)'
     [re |-> Cat(<<Words(<<"bitcoin", "crypto", "blockchain">>), Plus(Ws), Words(<<"investment", "required", "needed">>)>>),
      weight |-> 4, description |-> "Crypto investment scheme"],
  \* r'(?:mlm|multi.?level.?marketing|pyramid|network.?marketing)'
     [re |-> Alt(<<Lit("mlm"), Cat(<<Lit("multi"), Opt(AnyChar), Lit("level"), Opt(AnyChar), Lit("marketing")>>), Lit("pyramid"), Cat(<<Lit("network"), Opt(AnyChar), Lit("marketing")>>)>>),
      weight |-> 3, description |-> "MLM/pyramid scheme"],
  \* r'(?:referral|commission|bonus)\s+(?:based|heavy|only)'
     [re |-> Cat(<<Words(<<"referral", "commission", "bonus">>), Plus(Ws), Words(<<"based", "heavy", "only">>)>>),
      weight |-> 2, description |-> "Commission-based structure"],
  \* r'(?:recruit|refer)\s+(?:friends|family|people)'
     [re |-> Cat(<<Lit("re"), Words(<<"cruit", "fer">>), Plus(Ws), Words(<<"friends", "family", "people">>)>>),
      weight |-> 2, description |-> "Recruitment focus"],
  \* r'(?:get rich quick|easy money|passive income|residual income)'
     [re |-> Words(<<"get rich quick", "easy money", "passive income", "residual income">>),
      weight |-> 3, description |-> "Get rich quick scheme"],
  \* r'(?:work from home|remote work)\s+(?:guaranteed|assured)'
     [re |-> Cat(<<Words(<<"work from home", "remote work">>), Plus(Ws), Words(<<"guaranteed", "assured">>)>>),
      weight |-> 3, description |-> "Guaranteed remote work"],
  \* r'(?:no experience|no skills|no qualification)\s+(?:needed|required)'
     [re |-> Cat(<<Lit("no "), Words(<<"experience", "skills", "qualification">>), Plus(Ws), Words(<<"needed", "required">>)>>),
      weight |-> 3, description |-> "No requirements claim"],
  \* r'(?:about\s+(?:us|the\s+company)|company\s+profile|our\s+mission)'
     [re |-> Alt(<<Cat(<<Lit("about"), Plus(Ws), Alt(<<Lit("us"), Cat(<<Lit("the"), Plus(Ws), Lit("company")>>)>>)>>), Cat(<<Lit("company"), Plus(Ws), Lit("profile")>>), Cat(<<Lit("our"), Plus(Ws), Lit("mission")>>)>>),
      weight |-> 0, description |-> "Company information present"],
  \* r'(?:responsibilities|requirements|qualifications|skills)'
     [re |-> Words(<<"responsibilities", "requirements", "qualifications", "skills">>),
      weight |-> 0, description |-> "Job details present"],
  \* r'(?:benefits|salary|compensation|perks)'
     [re |-> Words(<<"benefits", "salary", "compensation", "perks">>),
      weight |-> 0, description |-> "Compensation details present"],
  \* r'(?:ai|artificial intelligence|machine learning|ml|deep learning)\s+(?:job|work|opportunity)\s+(?:guaranteed|assured)'
     [re |-> Cat(<<Words(<<"ai", "artificial intelligence", "machine learning", "ml", "deep learning">>), Plus(Ws), Words(<<"job", "work", "opportunity">>), Plus(Ws), Words(<<"guaranteed", "assured">>)>>),
      weight |-> 3, description |-> "AI/ML scam promise"],
  \* r'(?:ai|ml|data science)\s+(?:certification|course|training)\s+(?:free|paid|investment)'
     [re |-> Cat(<<Words(<<"ai", "ml", "data science">>), Plus(Ws), Words(<<"certification", "course", "training">>), Plus(Ws), Words(<<"free", "paid", "investment">>)>>),
      weight |-> 2, description |-> "AI training scam"],
  \* r'(?:blockchain|crypto|web3|nft)\s+(?:developer|engineer|specialist)\s+(?:remote|home)'
     [re |-> Cat(<<Words(<<"blockchain", "crypto", "web3", "nft">>), Plus(Ws), Words(<<"developer", "engineer", "specialist">>), Plus(Ws), Words(<<"remote", "home">>)>>),
      weight |-> 3, description |-> "Crypto job scam"],
  \* r'(?:metaverse|vr|ar|virtual reality)\s+(?:job|career|opportunity)'
     [re |-> Cat(<<Words(<<"metaverse", "vr", "ar", "virtual reality">>), Plus(Ws), Words(<<"job", "career", "opportunity">>)>>),
      weight |-> 2, description |-> "Metaverse job scam"],
  \* r'(?:remote|home|flexible)\s+(?:work|job)\s+(?:unlimited|unrestricted|freedom)'
     [re |-> Cat(<<Words(<<"remote", "home", "flexible">>), Plus(Ws), Words(<<"work", "job">>), Plus(Ws), Words(<<"unlimited", "unrestricted", "freedom">>)>>),
      weight |-> 3, description |-> "Fake remote work freedom"],
  \* r'(?:set\s+your\s+own\s+(?:hours|schedule|pace)|work\s+when\s+you\s+want)'
     [re |-> Alt(<<Cat(<<Lit("set"), Plus(Ws), Lit("your"), Plus(Ws), Lit("own"), Plus(Ws), Words(<<"hours", "schedule", "pace">>)>>), Cat(<<Lit("work"), Plus(Ws), Lit("when"), Plus(Ws), Lit("you"), Plus(Ws), Lit("want")>>)>>),
      weight |-> 2, description |-> "Unrealistic flexibility"],
  \* r'(?:no\s+(?:boss|manager|supervisor|office)|own\s+(?:boss|schedule))'
     [re |-> Alt(<<Cat(<<Lit("no"), Plus(Ws), Words(<<"boss", "manager", "supervisor", "office">>)>>), Cat(<<Lit("own"), Plus(Ws), Words(<<"boss", "schedule">>)>>)>>),
      weight |-> 3, description |-> "No supervision claim"],
  \* r'(?:learn\s+(?:coding|programming|development)\s+in\s+\d+\s+(?:days?|weeks?|months?))'
     [re |-> Cat(<<Lit("learn"), Plus(Ws), Words(<<"coding", "programming", "development">>), Plus(Ws), Lit("in"), Plus(Ws), Plus(Dg), Plus(Ws), Alt(<<Cat(<<Lit("day"), Opt(Lit("s"))>>), Cat(<<Lit("week"), Opt(Lit("s"))>>), Cat(<<Lit("month"), Opt(Lit("s"))>>)>>)>>),
      weight |-> 3, description |-> "Impossible learning timeline"],
  \* r'(?:become\s+(?:developer|engineer|expert)\s+in\s+\d+\s+(?:days?|weeks?|months?))'
     [re |-> Cat(<<Lit("become"), Plus(Ws), Words(<<"developer", "engineer", "expert">>), Plus(Ws), Lit("in"), Plus(Ws), Plus(Dg), Plus(Ws), Alt(<<Cat(<<Lit("day"), Opt(Lit("s"))>>), Cat(<<Lit("week"), Opt(Lit("s"))>>), Cat(<<Lit("month"), Opt(Lit("s"))>>)>>)>>),
      weight |-> 3, description |-> "Unrealistic career promise"],
  \* r'(?:guaranteed\s+(?:placement|job|career)\s+(?:after|upon)\s+(?:completion|course|training))'
     [re |-> Cat(<<Lit("guaranteed"), Plus(Ws), Words(<<"placement", "job", "career">>), Plus(Ws), Words(<<"after", "upon">>), Plus(Ws), Words(<<"completion", "course", "training">>)>>),
      weight |-> 3, description |-> "Guaranteed placement scam"],
  \* r'(?:copy\s+paste|copy-paste|ctrl\+c|ctrl\+v)\s+(?:work|job|tasks?)'
     [re |-> Cat(<<Lit("c"), Alt(<<Cat(<<Lit("opy"), Plus(Ws), Lit("paste")>>), Lit("opy-paste"), Lit("trl+c"), Lit("trl+v")>>), Plus(Ws), Alt(<<Lit("work"), Lit("job"), Cat(<<Lit("task"), Opt(Lit("s"))>>)>>)>>),
      weight |-> 3, description |-> "Copy-paste job scam"],
  \* r'(?:micro\s+tasks?|nano\s+tasks?|click\s+work|captcha\s+entry)'
     [re |-> Alt(<<Cat(<<Lit("micro"), Plus(Ws), Lit("task"), Opt(Lit("s"))>>), Cat(<<Lit("nano"), Plus(Ws), Lit("task"), Opt(Lit("s"))>>), Cat(<<Lit("click"), Plus(Ws), Lit("work")>>), Cat(<<Lit("captcha"), Plus(Ws), Lit("entry")>>)>>),
      weight |-> 3, description |-> "Micro-task exploitation"],
  \* r'(?:crowdfunding|crowdsource|platform\s+(?:like|similar\s+to)\s+(?:upwork|fiverr))'
     [re |-> Alt(<<Lit("crowdfunding"), Lit("crowdsource"), Cat(<<Lit("platform"), Plus(Ws), Alt(<<Lit("like"), Cat(<<Lit("similar"), Plus(Ws), Lit("to")>>)>>), Plus(Ws), Words(<<"upwork", "fiverr">>)>>)>>),
      weight |-> 2, description |-> "Fake freelancing platform"],
  \* r'(?:invest\s+(?:small|little|minimal)\s+amount|initial\s+investment)'
     [re |-> Cat(<<Lit("in"), Alt(<<Cat(<<Lit("vest"), Plus(Ws), Words(<<"small", "little", "minimal">>), Plus(Ws), Lit("amount")>>), Cat(<<Lit("itial"), Plus(Ws), Lit("investment")>>)>>)>>),
      weight |-> 4, description |-> "Investment-based job"],
  \* r'(?:roi|return\s+on\s+investment|profit\s+sharing|revenue\s+sharing)'
     [re |-> Alt(<<Lit("roi"), Cat(<<Lit("return"), Plus(Ws), Lit("on"), Plus(Ws), Lit("investment")>>), Cat(<<Lit("profit"), Plus(Ws), Lit("sharing")>>), Cat(<<Lit("revenue"), Plus(Ws), Lit("sharing")>>)>>),
      weight |-> 3, description |-> "Investment return promise"],
  \* r'(?:partnership|joint\s+venture|business\s+opportunity)'
     [re |-> Alt(<<Lit("partnership"), Cat(<<Lit("joint"), Plus(Ws), Lit("venture")>>), Cat(<<Lit("business"), Plus(Ws), Lit("opportunity")>>)>>),
      weight |-> 2, description |-> "Business partnership scam"],
  \* r'(?:limited\s+spots?|exclusive\s+opportunity|vip\s+access)'
     [re |-> Alt(<<Cat(<<Lit("limited"), Plus(Ws), Lit("spot"), Opt(Lit("s"))>>), Cat(<<Lit("exclusive"), Plus(Ws), Lit("opportunity")>>), Cat(<<Lit("vip"), Plus(Ws), Lit("access")>>)>>),
      weight |-> 2, description |-> "Exclusivity manipulation"],
  \* r'(?:don\'?t\s+tell\s+(?:anyone|others)|keep\s+it\s+(?:secret|confidential))'
     [re |-> Alt(<<Cat(<<Lit("don"), Opt(Lit("'")), Lit("t"), Plus(Ws), Lit("tell"), Plus(Ws), Words(<<"anyone", "others">>)>>), Cat(<<Lit("keep"), Plus(Ws), Lit("it"), Plus(Ws), Words(<<"secret", "confidential">>)>>)>>),
      weight |-> 3, description |-> "Secrecy requirement"],
  \* r'(?:only\s+(?:serious|candidates|qualified)\s+(?:need|apply))'
     [re |-> Cat(<<Lit("only"), Plus(Ws), Words(<<"serious", "candidates", "qualified">>), Plus(Ws), Words(<<"need", "apply">>)>>),
      weight |-> 2, description |-> "Selective candidate claim"],
  \* r'(?:startup|new\s+company|emerging\s+(?:company|business))\s+(?:with\s+)?(?:unlimited\s+potential|high\s+growth)'
     [re |-> Cat(<<Alt(<<Lit("startup"), Cat(<<Lit("new"), Plus(Ws), Lit("company")>>), Cat(<<Lit("emerging"), Plus(Ws), Words(<<"company", "business">>)>>)>>), Plus(Ws), Opt(Cat(<<Lit("with"), Plus(Ws)>>)), Alt(<<Cat(<<Lit("unlimited"), Plus(Ws), Lit("potential")>>), Cat(<<Lit("high"), Plus(Ws), Lit("growth")>>)>>)>>),
      weight |-> 2, description |-> "Fake startup promise"],
  \* r'(?:revolutionary|disruptive|game.?changing)\s+(?:technology|platform|solution)'
     [re |-> Cat(<<Alt(<<Lit("revolutionary"), Lit("disruptive"), Cat(<<Lit("game"), Opt(AnyChar), Lit("changing")>>)>>), Plus(Ws), Words(<<"technology", "platform", "solution">>)>>),
      weight |-> 2, description |-> "Overhyped technology"],
  \* r'(?:backed\s+by|funded\s+by|invested\s+in\s+by)\s+(?:famous|celebrity|influencer)'
     [re |-> Cat(<<Alt(<<Cat(<<Lit("backed"), Plus(Ws), Lit("by")>>), Cat(<<Lit("funded"), Plus(Ws), Lit("by")>>), Cat(<<Lit("invested"), Plus(Ws), Lit("in"), Plus(Ws), Lit("by")>>)>>), Plus(Ws), Words(<<"famous", "celebrity", "influencer">>)>>),
      weight |-> 2, description |-> "Celebrity endorsement scam"]
  >>

\* ------------------------------------------------------------------------
\* count_red_flags (utils/red_flags.py)
\* ------------------------------------------------------------------------

\* sum(1 for w in words if w in s)
RECURSIVE CountPresent(_, _)
CountPresent(words, s) ==
  IF words = <<>> THEN 0
  ELSE (IF Contains(s, Head(words)) THEN 1 ELSE 0) + CountPresent(Tail(words), s)

\* any(w in s for w in words)
AnyPresent(words, s) == \E i \in 1..Len(words) : Contains(s, words[i])

\* total_score = 0; found_flags = []
EmptyScan == [total_score |-> 0, found_flags |-> <<>>]

\* a scan that counts the weight of a label only the first time it is found
AddFinding(acc, label, weight) ==
  [total_score |-> IF \E j \in 1..Len(acc.found_flags) : acc.found_flags[j][1] = label
                     THEN acc.total_score ELSE acc.total_score + weight,
   found_flags |-> Append(acc.found_flags, <<label, weight>>)]

\* total_score += weight; found_flags.append((label, weight))
AddFlag(acc, label, weight) ==
  [total_score |-> acc.total_score + weight,
   found_flags |-> Append(acc.found_flags, <<label, weight>>)]

\* for each hit, in order: total_score += weight; found_flags.append(...)
RECURSIVE AddFlags(_, _)
AddFlags(acc, hits) ==
  IF hits = <<>> THEN acc
  ELSE AddFlags(AddFlag(acc, Head(hits)[1], Head(hits)[2]), Tail(hits))

\* for flag, weight in table.items(): if flag in text_lower: ...
LiteralHits(table, text_lower) ==
  SelectSeq(table, LAMBDA e : Contains(text_lower, e[1]))

pattern_urgency_words == <<"urgent", "immediate", "now", "today">>

\* round(weight * multiplier), halves upwards
RoundedWeight(weight, matches, urgent) ==
  LET repeat == IF matches > 1 THEN 15 ELSE 10
      urgency == IF urgent THEN 13 ELSE 10
  IN (weight * repeat * urgency + 50) \div 100

\* int(weight * multiplier): multiplier 1.0, 1.5 for more than one match,
\* times 1.3 when an urgency word is in text_clean; in tenths and hundredths
AdjustedWeight(weight, matches, urgent) ==
  LET repeat == IF matches > 1 THEN 15 ELSE 10
      urgency == IF urgent THEN 13 ELSE 10
  IN (weight * repeat * urgency) \div 100

\* for pattern, weight, description in pattern_flags: matches = re.findall(...);
\* if matches: (description, adjusted_weight)
PatternHits(table, text_lower, urgent) ==
  LET counted == [i \in 1..Len(table) |->
                    [entry |-> table[i], matches |-> FindAll2(table[i].re, text_lower)]]
      matched == SelectSeq(counted, LAMBDA c : c.matches > 0)
  IN [i \in 1..Len(matched) |->
        <<matched[i].entry.description,
          AdjustedWeight(matched[i].entry.weight, matched[i].matches, urgent)>>]

\* 1. capitalisation: caps_ratio > 0.3, elif caps_ratio > 0.5
CheckCaps(acc, text) ==
  LET caps == CountIn(text, UpperSet)
      n    == Max(Len(text), 1)
  IN IF 10 * caps > 3 * n
       THEN AddFlag(acc, "Excessive capitalization (SCAM indicator)", 2)
     ELSE IF 10 * caps > 5 * n
       THEN AddFlag(acc, "ALL CAPS TEXT (Strong SCAM indicator)", 3)
     ELSE acc

common_misspellings ==
  <<"heelo", "helo", "wel come", "succesful", "occassion", "recieve",
    "excelent", "seperete", "occured", "wiht", "adn", "teh", "reccommend",
    "experiance", "qualifed", "benifits", "salery", "comapny", "organiation">>

\* 2. spelling
CheckSpelling(acc, text_clean) ==
  LET spelling_errors == CountPresent(common_misspellings, text_clean)
  IN IF spelling_errors > 2
       THEN AddFlag(acc,
              "Multiple spelling errors (" \o ToString(spelling_errors) \o " found)",
              Min(2, spelling_errors - 1))
     ELSE IF spelling_errors = 1
             /\ AnyPresent(<<"urgent", "guaranteed", "easy money">>, text_clean)
       THEN AddFlag(acc, "Minor spelling error with suspicious content", 1)
     ELSE acc

\* sum(len(s.split()) for s in sentences)
RECURSIVE WordsIn(_)
WordsIn(sentences) ==
  IF sentences = <<>> THEN 0
  ELSE Len(Split(Head(sentences))) + WordsIn(Tail(sentences))

\* 3. sentence structure: avg_sentence_length < 5 and len(sentences) > 10
CheckStructure(acc, text) ==
  LET sentences == SplitSentences(text)
  IN IF WordsIn(sentences) < 5 * Max(Len(sentences), 1) /\ Len(sentences) > 10
       THEN AddFlag(acc, "Poor sentence structure", 1)
       ELSE acc

professional_indicators ==
  <<"responsibilities", "qualifications", "requirements", "skills",
    "experience", "education", "benefits", "salary", "company", "about us",
    "contact", "apply">>

scam_context_words ==
  <<"guaranteed", "easy money", "urgent", "apply now", "no experience">>

\* 4. professional content
CheckProfessional(acc, text_lower, text_clean) ==
  LET professional_score == CountPresent(professional_indicators, text_lower)
      scam_context == AnyPresent(scam_context_words, text_clean)
  IN IF professional_score < 2 /\ scam_context
       THEN AddFlag(acc, "Missing professional job details", 2)
     ELSE IF professional_score < 3 /\ scam_context
       THEN AddFlag(acc, "Limited professional content", 1)
     ELSE acc

scam_words ==
  <<"guaranteed", "easy money", "work from home", "no experience", "urgent",
    "apply now", "limited time", "investment", "deposit", "fee", "bitcoin",
    "crypto", "passive income", "side hustle", "extra income", "commission">>

\* f"{x:.1%}" for x = num / den: tenths of a percent, ties to even
PercentLabel(num, den) ==
  LET q == (1000 * num) \div den
      r == (1000 * num) % den
      tenths == IF 2 * r > den \/ (2 * r = den /\ q % 2 = 1) THEN q + 1 ELSE q
  IN ToString(tenths \div 10) \o "." \o ToString(tenths % 10) \o "%"

\* 5. scam phrase density: scam_density > 0.05, min(3, int(scam_density * 50))
CheckDensity(acc, text_lower, text_clean) ==
  LET scam_word_count == CountPresent(scam_words, text_lower)
      total_words == Len(Split(text_clean))
  IN IF total_words > 0 /\ 20 * scam_word_count > total_words
       THEN AddFlag(acc,
              "High scam phrase density ("
                \o PercentLabel(scam_word_count, total_words) \o ")",
              Min(3, (50 * scam_word_count) \div total_words))
       ELSE acc

contact_methods == <<"whatsapp", "telegram", "phone", "email", "call", "text", "dm">>

\* 6. contact methods
CheckContacts(acc, text_lower) ==
  IF CountPresent(contact_methods, text_lower) > 2
    THEN AddFlag(acc, "Multiple contact methods specified", 1)
    ELSE acc

money_indicators ==
  <<"$", "<rupee>", "dollar", "rupee", "salary", "pay", "earn", "income">>

\* 7. money references
CheckMoney(acc, text_lower) ==
  IF CountPresent(money_indicators, text_lower) > 3
    THEN AddFlag(acc, "Excessive money references", 1)
    ELSE acc

urgency_words ==
  <<"urgent", "immediate", "asap", "now", "today", "deadline", "limited time", "hurry">>

\* 8. time pressure
CheckUrgency(acc, text_lower) ==
  LET urgency_count == CountPresent(urgency_words, text_lower)
  IN IF urgency_count > 2
       THEN AddFlag(acc, "High urgency pressure", Min(2, urgency_count - 1))
       ELSE acc

\* a dictionary update that lets the last contribution of a label win
KeepLatest(unique_flags, flag, weight) ==
  IF \E i \in 1..Len(unique_flags) : unique_flags[i][1] = flag
    THEN [i \in 1..Len(unique_flags) |->
            IF unique_flags[i][1] = flag THEN <<flag, weight>> ELSE unique_flags[i]]
    ELSE Append(unique_flags, <<flag, weight>>)

\* unique_flags[flag] = weight when flag is new or its weight is lower
KeepHighest(unique_flags, flag, weight) ==
  IF \E i \in 1..Len(unique_flags) : unique_flags[i][1] = flag
    THEN [i \in 1..Len(unique_flags) |->
            IF unique_flags[i][1] = flag /\ unique_flags[i][2] < weight
              THEN <<flag, weight>> ELSE unique_flags[i]]
    ELSE Append(unique_flags, <<flag, weight>>)

\* the dictionary built from found_flags, as the sequence of its items in
\* insertion order
RECURSIVE UniqueFlags(_, _, _)
UniqueFlags(found_flags, i, unique_flags) ==
  IF i > Len(found_flags) THEN unique_flags
  ELSE UniqueFlags(found_flags, i + 1,
         KeepHighest(unique_flags, found_flags[i][1], found_flags[i][2]))

\* the literal and pattern tiers (lines 244-278), then the eight heuristics
\* (lines 280-396), each adding to what the ones before it accumulated
Tiers(text_lower, text_clean) ==
  AddFlags(
    AddFlags(
      AddFlags(
        AddFlags(EmptyScan, LiteralHits(critical_flags, text_lower)),
        LiteralHits(high_risk_flags, text_lower)),
      LiteralHits(medium_risk_flags, text_lower)),
    PatternHits(pattern_flags, text_lower,
                AnyPresent(pattern_urgency_words, text_clean)))

Heuristics(acc, text, text_lower, text_clean) ==
  CheckUrgency(
    CheckMoney(
      CheckContacts(
        CheckDensity(
          CheckProfessional(
            CheckStructure(
              CheckSpelling(CheckCaps(acc, text), text_clean),
              text),
            text_lower, text_clean),
          text_lower, text_clean),
        text_lower),
      text_lower),
    text_lower)

\* text_clean = re.sub(r'[^\w\s]', ' ', text_lower)
Cleaned(text, text_lower) ==
  Heuristics(Tiers(text_lower, StripPunctuation(text_lower)),
             text, text_lower, StripPunctuation(text_lower))

\* everything count_red_flags accumulates before it removes the duplicates
ScanText(text) == Cleaned(text, Lower(text))

\* count_red_flags(text): (total_score, unique_flags)
\* lines 398-404: the findings by label, and the pair that is returned
Returned(scan) ==
  [total_score  |-> scan.total_score,
   unique_flags |-> UniqueFlags(scan.found_flags, 1, <<>>)]

count_red_flags(text) == Returned(ScanText(text))


\* ------------------------------------------------------------------------
\* Numbers: millionths.  Ratio(a, b) is a / b rounded down to a millionth;
\* the thresholds the code compares with are multiples of a millionth.
\* ------------------------------------------------------------------------

Scale == 1000 * 1000
Ratio(a, b) == (a * Scale) \div b

\* the value as it is
Unclamped(v) == v

\* max(0, min(1, v))
Clamp01(v) == Max(0, Min(Scale, v))

\* ------------------------------------------------------------------------
\* job_data: a mapping from the keys that are present to strings
\* ------------------------------------------------------------------------

\* job_data.get(key, default): the value read, whether the read raises, and
\* the mapping after the read
Lookup(job_data, key, default) ==
  IF key \in DOMAIN job_data THEN job_data[key] ELSE default

\* job_data[key] in place of job_data.get(key, default)
SubscriptRaises(job_data, key) == key \notin DOMAIN job_data
LookupRaises(job_data, key) == FALSE

\* job_data.setdefault(key, default) in place of job_data.get(key, default)
AfterSetDefault(job_data, key, default) ==
  IF key \in DOMAIN job_data THEN job_data
  ELSE [k \in DOMAIN job_data \cup {key} |->
          IF k = key THEN default ELSE job_data[k]]
AfterLookup(job_data, key, default) == job_data

\* ------------------------------------------------------------------------
\* FeatureExtractor
\* ------------------------------------------------------------------------

extract_text_features(text) ==
  [text_length       |-> Len(text),
   word_count        |-> Len(Split(text)),
   avg_word_length   |-> 5 * Scale,
   unique_word_ratio |-> 6 * (Scale \div 10),
   uppercase_ratio   |-> IF text # "" THEN Ratio(CountIn(text, UpperSet), Len(text)) ELSE 0,
   digit_ratio       |-> IF text # "" THEN Ratio(CountIn(text, DigitChars), Len(text)) ELSE 0]

extract_spelling_features(text) ==
  [spelling_errors |-> 0,
   grammar_score   |-> Len(text),
   sentence_count  |-> CountIn(text, {"."}) + CountIn(text, {"!"}) + CountIn(text, {"?"}) + 1]

high_risk_keywords ==
  <<"temp", "fake", "test", "demo", "example", "mail.com", "gmail", "yahoo", "hotmail">>
suspicious_tlds == <<".tk", ".ml", ".ga", ".cf", ".gq", ".xyz", ".top", ".win", ".bid">>
low_risk_patterns == <<"temp-mail", "10minutemail", "guerrillamail", "mailinator">>

\* re.match(r'^\d+\..*$', domain_lower)
NumbersOnlyLabel(domain_lower) ==
  LET stop == FirstNotIn(domain_lower, 1, DigitChars)
      rest == SubSeq(domain_lower, stop + 1, Len(domain_lower))
  IN /\ stop > 1
     /\ stop <= Len(domain_lower)
     /\ CharAt(domain_lower, stop) = "."
     /\ FirstIn(rest, 1, {"\n"}) >= Len(rest)

\* len(domain_lower.split('.')[0])
FirstLabelLength(domain_lower) == FirstIn(domain_lower, 1, {"."}) - 1

\* check_suspicious_domain with the disposable-mail patterns tried before the
\* suspicious endings
PatternsBeforeEndings(domain) ==
  LET domain_lower == Lower(domain)
  IN IF domain = "" THEN Scale
     ELSE IF AnyPresent(high_risk_keywords, domain_lower) THEN Scale
     ELSE IF AnyPresent(low_risk_patterns, domain_lower) THEN 5 * (Scale \div 10)
     ELSE IF \E t \in 1..Len(suspicious_tlds) : EndsWith(domain_lower, suspicious_tlds[t])
       THEN 8 * (Scale \div 10)
     ELSE IF NumbersOnlyLabel(domain_lower) THEN 7 * (Scale \div 10)
     ELSE IF FirstLabelLength(domain_lower) < 3 THEN 6 * (Scale \div 10)
     ELSE 0

check_suspicious_domain(domain) ==
  LET domain_lower == Lower(domain)
  IN IF domain = "" THEN Scale
     ELSE IF AnyPresent(high_risk_keywords, domain_lower) THEN Scale
     ELSE IF \E t \in 1..Len(suspicious_tlds) : EndsWith(domain_lower, suspicious_tlds[t])
       THEN 8 * (Scale \div 10)
     ELSE IF AnyPresent(low_risk_patterns, domain_lower) THEN 5 * (Scale \div 10)
     ELSE IF NumbersOnlyLabel(domain_lower) THEN 7 * (Scale \div 10)
     ELSE IF FirstLabelLength(domain_lower) < 3 THEN 6 * (Scale \div 10)
     ELSE 0

extract_domain_features(company_domain, company_name) ==
  [domain_exists         |-> IF company_domain # "" THEN 1 ELSE 0,
   domain_length         |-> IF company_domain # "" THEN Len(company_domain) ELSE 0,
   has_suspicious_domain |-> check_suspicious_domain(company_domain),
   company_name_length   |-> IF company_name # "" THEN Len(company_name) ELSE 0]

spam_indicators ==
  <<"work from home with no experience", "easy money", "get rich quick",
    "no experience needed", "guaranteed income", "bitcoin", "crypto">>
suspicious_senders == <<"@temp", "@fake", "@test", "@gmail.com", "@yahoo.com">>

extract_red_flags(description, requirements, salary) ==
  LET text_combined == Lower(description \o " " \o requirements)
      salary_lower  == Lower(salary)
      unrealistic ==
        IF salary # "" /\ (\/ Contains(salary_lower, "unlimited")
                           \/ Contains(salary_lower, "negotiable")
                           \/ Contains(salary_lower, "fake"))
          THEN <<"unrealistic_salary">> ELSE <<>>
      spam ==
        IF AnyPresent(spam_indicators, text_combined) THEN <<"spam_phrase">> ELSE <<>>
      email ==
        IF Contains(text_combined, "@") /\ AnyPresent(suspicious_senders, text_combined)
          THEN <<"suspicious_email">> ELSE <<>>
      missing ==
        IF requirements = "" \/ Len(Strip(requirements)) < 20
          THEN <<"missing_requirements">> ELSE <<>>
  IN IF Len(description) < 50 THEN <<"vague_description">>
     ELSE unrealistic \o spam \o email \o missing

\* TextBlob(text).sentiment is the work of a library outside the repository.
\* It is a function of the text; sentiment_words stands for its lexicon.
sentiment_words ==
  <<<<"great", 8 * (Scale \div 10)>>, <<"easy", 4 * (Scale \div 10)>>,
    <<"good", 7 * (Scale \div 10)>>, <<"bad", 0 - 7 * (Scale \div 10)>>>>

TextBlobSentiment(text) ==
  LET text_lower == Lower(text)
      hits == SelectSeq(sentiment_words, LAMBDA e : Contains(text_lower, e[1]))
  IN IF hits = <<>> THEN [polarity |-> 0, subjectivity |-> 0]
     ELSE [polarity     |-> SumSeq([j \in 1..Len(hits) |-> hits[j][2]]) \div Len(hits),
           subjectivity |-> Scale \div 2]

\* try: TextBlob(text).sentiment  except: 0.0, 0.0
\* library = "unavailable": the constructor or its corpora raise
_extract_sentiment(library, text) ==
  IF library = "unavailable" THEN [polarity |-> 0, subjectivity |-> 0]
  ELSE TextBlobSentiment(text)

Vowels == {"a", "e", "i", "o", "u", "y"}

_count_syllables(word) ==
  LET lowered == Lower(word)
      first == IF CharAt(lowered, 1) \in Vowels THEN 1 ELSE 0
      inner == Cardinality({j \in 2..Len(lowered) :
                 CharAt(lowered, j) \in Vowels /\ CharAt(lowered, j - 1) \notin Vowels})
      count == first + inner - (IF EndsWith(lowered, "e") THEN 1 ELSE 0)
  IN IF count = 0 THEN 1 ELSE count

\* 206.835 - 1.015 * (words / sentences) - 84.6 * (syllables / words), over
\* 100, clamped
_calculate_readability(words, sentences) ==
  IF words = <<>> \/ sentences = <<>> THEN 0
  ELSE LET W == Len(words)
           N == Len(sentences)
           Y == SumSeq([j \in 1..W |-> _count_syllables(words[j])])
       IN Clamp01((2068350 * N * W - 10150 * W * W - 846000 * Y * N) \div (N * W))

_calculate_lexical_diversity(words) ==
  IF words = <<>> THEN 0
  ELSE Ratio(Cardinality({words[j] : j \in 1..Len(words)}), Len(words))

\* (std / mean) squared of the sentence lengths: the variance over the
\* squared mean, which decides the same comparisons as std / mean
_calculate_sentence_complexity(sentences) ==
  IF Len(sentences) < 2 THEN 0
  ELSE LET kept    == SelectSeq(sentences, LAMBDA t : Strip(t) # "")
           lengths == [j \in 1..Len(kept) |-> Len(Split(kept[j]))]
           total   == SumSeq(lengths)
           squares == SumSeq([j \in 1..Len(kept) |-> lengths[j] * lengths[j]])
       IN IF kept = <<>> \/ total = 0 THEN 0
          ELSE Ratio(Len(kept) * squares - total * total, total * total)

professional_terms ==
  {"responsibilities", "requirements", "qualifications", "skills", "experience",
   "education", "benefits", "salary", "compensation", "company", "organization",
   "team", "project", "client", "customer", "deadline", "milestone", "objective",
   "strategy", "analysis", "development", "implementation", "collaboration"}

_calculate_professional_term_ratio(text) ==
  LET tokens == Split(Lower(text))
      words  == {tokens[j] : j \in 1..Len(tokens)}
  IN IF words = {} THEN 0
     ELSE Ratio(Cardinality(words \cap professional_terms), Cardinality(words))

high_risk_combos ==
  <<[flags |-> <<"payment required", "urgent hiring">>, score |-> 8 * (Scale \div 10),
     description |-> "Payment + Urgency: Classic scam pattern"],
    [flags |-> <<"bitcoin", "guaranteed income">>, score |-> 8 * (Scale \div 10),
     description |-> "Crypto + Guarantee: Investment scam"],
    [flags |-> <<"no experience needed", "high salary">>, score |-> 7 * (Scale \div 10),
     description |-> "No experience + High pay: Unrealistic"],
    [flags |-> <<"whatsapp only", "no interview">>, score |-> 7 * (Scale \div 10),
     description |-> "WhatsApp only + No interview: Suspicious contact"],
    [flags |-> <<"work from home", "no experience needed", "guaranteed">>,
     score |-> 6 * (Scale \div 10),
     description |-> "WFH + No exp + Guaranteed: Common scam"]>>

medium_risk_combos ==
  <<[flags |-> <<"urgent", "apply now">>, score |-> 4 * (Scale \div 10),
     description |-> "Urgency + Apply pressure"],
    [flags |-> <<"investment", "commission">>, score |-> 4 * (Scale \div 10),
     description |-> "Investment + Commission: MLM indicators"],
    [flags |-> <<"crypto", "remote work">>, score |-> 3 * (Scale \div 10),
     description |-> "Crypto + Remote: Modern scam pattern"],
    [flags |-> <<"ai training", "guaranteed job">>, score |-> 3 * (Scale \div 10),
     description |-> "AI training + Job guarantee: Training scam"]>>

scam_phrases ==
  <<"guaranteed", "easy money", "work from home", "no experience", "urgent",
    "apply now", "bitcoin", "crypto", "passive income">>

\* flag in red_flags
InList(flag, red_flags) == \E j \in 1..Len(red_flags) : red_flags[j] = flag

\* the combinations all of whose flags are in red_flags
ComboHits(combos, red_flags) ==
  SelectSeq(combos,
    LAMBDA e : \A j \in 1..Len(e.flags) : InList(e.flags[j], red_flags))

analyze_red_flag_combinations(red_flags, text) ==
  LET text_lower  == Lower(text)
      hits        == ComboHits(high_risk_combos, red_flags)
                       \o ComboHits(medium_risk_combos, red_flags)
      combos      == SumSeq([j \in 1..Len(hits) |-> hits[j].score])
      many        == Len(red_flags) >= 3
      scam_count  == CountPresent(scam_phrases, text_lower)
      total_words == Len(Split(text_lower))
      dense       == total_words > 0 /\ 100 * scam_count > 3 * total_words
  IN [combo_score |->
        combos + (IF many THEN 2 * (Scale \div 10) ELSE 0)
               + (IF dense THEN Min(3 * (Scale \div 10), Ratio(5 * scam_count, total_words))
                  ELSE 0),
      combo_flags |->
        [j \in 1..Len(hits) |-> hits[j].description]
          \o (IF many THEN <<"Multiple red flags detected">> ELSE <<>>)
          \o (IF dense
                THEN <<"High scam phrase density ("
                         \o PercentLabel(scam_count, total_words) \o ")">>
                ELSE <<>>)]

\* the keys extract_all_features reads, with their defaults
feature_keys ==
  <<"description", "requirements", "company_profile", "company_domain",
    "company_name", "salary">>

extract_all_features(library, job_data) ==
  LET description     == Lookup(job_data, "description", "")
      requirements    == Lookup(job_data, "requirements", "")
      company_profile == Lookup(job_data, "company_profile", "")
      company_domain  == Lookup(job_data, "company_domain", "")
      company_name    == Lookup(job_data, "company_name", "")
      salary          == Lookup(job_data, "salary", "")
      combined_text   == description \o " " \o requirements \o " " \o company_profile
      text_features   == extract_text_features(combined_text)
      spelling        == extract_spelling_features(combined_text)
      domain_features == extract_domain_features(company_domain, company_name)
      red_flags       == extract_red_flags(description, requirements, salary)
      words           == Split(combined_text)
      sentences       == SplitSentences(combined_text)
      sentiment       == _extract_sentiment(library, combined_text)
      readability     == _calculate_readability(words, sentences)
      diversity       == _calculate_lexical_diversity(words)
      professional    == _calculate_professional_term_ratio(combined_text)
      combo           == analyze_red_flag_combinations(red_flags, combined_text)
  IN [text_length             |-> text_features.text_length,
      word_count              |-> text_features.word_count,
      avg_word_length         |-> text_features.avg_word_length,
      unique_word_ratio       |-> text_features.unique_word_ratio,
      uppercase_ratio         |-> text_features.uppercase_ratio,
      digit_ratio             |-> text_features.digit_ratio,
      spelling_errors         |-> spelling.spelling_errors,
      grammar_score           |-> spelling.grammar_score,
      sentence_count          |-> spelling.sentence_count,
      domain_exists           |-> domain_features.domain_exists,
      domain_length           |-> domain_features.domain_length,
      has_suspicious_domain   |-> domain_features.has_suspicious_domain,
      company_name_length     |-> domain_features.company_name_length,
      red_flag_count          |-> Len(red_flags),
      red_flags               |-> red_flags,
      red_flags_score         |-> 0,
      sentiment_polarity      |-> sentiment.polarity,
      sentiment_subjectivity  |-> sentiment.subjectivity,
      readability_score       |-> readability,
      lexical_diversity       |-> diversity,
      sentence_complexity     |-> _calculate_sentence_complexity(sentences),
      professional_term_ratio |-> professional,
      red_flag_combo_score    |-> combo.combo_score,
      red_flag_combinations   |-> combo.combo_flags,
      text_quality_score      |-> (3 * readability + 3 * diversity + 4 * professional) \div 10,
      suspicion_score         |-> Min(Scale, Len(red_flags) * (Scale \div 10)
                                               + combo.combo_score \div 20)]

\* ------------------------------------------------------------------------
\* JobAnalyzer: prediction, severity, quality
\* ------------------------------------------------------------------------

\* one hundredth, in millionths
Cent == Scale \div 100

critical_patterns ==
  <<"registration fee", "pay fee", "payment required", "upfront payment",
    "bitcoin", "cryptocurrency", "blockchain investment", "crypto investment",
    "guaranteed income", "guaranteed job", "no interview", "no background check",
    "fake degree accepted", "illegal work">>

high_risk_patterns ==
  <<"urgent hiring", "whatsapp", "telegram", "viber", "skype",
    "work from home guaranteed", "no experience needed", "easy money",
    "get rich quick", "passive income", "micro task", "captcha entry">>

\* sum(1 for flag in red_flags if any(pattern in flag.lower() for pattern in patterns))
CountMatching(red_flags, patterns) ==
  Cardinality({j \in 1..Len(red_flags) : AnyPresent(patterns, Lower(red_flags[j]))})

\* max(0, min(score, 1.0))
ClampScoreAbove(score) == Min(score, Scale)
ClampScore(score) == Max(0, Min(score, Scale))

\* if text_length > 600: positive_score += 0.08
\* elif text_length > 1000: positive_score += 0.12
LengthDeduction(text_length) ==
  IF text_length > 600 THEN 8 * Cent
  ELSE IF text_length > 1000 THEN 12 * Cent
  ELSE 0

\* the sum before the clamp
RawScore(features, red_flags) ==
  LET red_flag_score == features.red_flags_score
      primary ==
        IF red_flag_score > 0
          THEN (6 * Min(Ratio(red_flag_score, 20), Scale)) \div 10
          ELSE 0 - 10 * Cent
      critical_count  == CountMatching(red_flags, critical_patterns)
      high_risk_count == CountMatching(red_flags, high_risk_patterns)
      other_flags     == Len(red_flags) - critical_count - high_risk_count
      additional ==
        IF red_flags # <<>>
          THEN critical_count * 15 * Cent + high_risk_count * 8 * Cent
                 + other_flags * 3 * Cent
          ELSE 0
      suspicious_domain_score == features.has_suspicious_domain
      domain ==
        IF suspicious_domain_score > 0 THEN (2 * suspicious_domain_score) \div 10 ELSE 0
      text_quality == features.text_quality_score
      text_length  == features.text_length
      quality ==
        IF text_quality > 60 * Cent /\ text_length > 500 THEN 0 - 15 * Cent
        ELSE IF text_quality < 30 * Cent THEN 10 * Cent
        ELSE IF text_quality > 70 * Cent THEN 0 - 5 * Cent
        ELSE 0
      sentiment_polarity == features.sentiment_polarity
      sentiment ==
        IF sentiment_polarity > 70 * Cent THEN 8 * Cent
        ELSE IF sentiment_polarity > 50 * Cent THEN 3 * Cent
        ELSE 0
      readability == features.readability_score
      reading ==
        IF readability < 20 * Cent \/ readability > 90 * Cent THEN 3 * Cent ELSE 0
      prof_ratio == features.professional_term_ratio
      professional ==
        IF prof_ratio < 5 * Cent THEN 8 * Cent
        ELSE IF prof_ratio > 20 * Cent THEN 0 - 10 * Cent
        ELSE 0
      lexical_div == features.lexical_diversity
      diversity == IF lexical_div < 30 * Cent THEN 6 * Cent ELSE 0
      suspicion == (3 * features.suspicion_score) \div 10
      combo     == (2 * features.red_flag_combo_score) \div 10
      positive_score ==
          (IF features.domain_exists # 0 /\ suspicious_domain_score = 0
             THEN 15 * Cent ELSE 0)
        + LengthDeduction(text_length)
        + (IF prof_ratio > 15 * Cent THEN 10 * Cent ELSE 0)
        + (IF 40 * Cent <= readability /\ readability <= 70 * Cent THEN 5 * Cent ELSE 0)
        + (IF lexical_div > 50 * Cent THEN 5 * Cent ELSE 0)
        + (IF red_flag_score = 0 /\ Len(red_flags) = 0 THEN 15 * Cent ELSE 0)
  IN 5 * Cent + primary + additional + domain + quality + sentiment + reading
       + professional + diversity + suspicion + combo - positive_score

_fast_prediction(features, red_flags) == ClampScore(RawScore(features, red_flags))

\* combined_score > 0.5, as it decides is_fake and as it decides final_prediction
IsFakeAtHalf(combined_score) == combined_score >= 50 * Cent
IsFake(combined_score) == combined_score > 50 * Cent
FinalPrediction(combined_score) ==
  IF combined_score > 50 * Cent THEN "FAKE JOB" ELSE "GENUINE JOB"

severity_critical_flags == {"suspicious_email", "spam_phrase", "unrealistic_salary"}

\* a severity that is High only for a critical finding with a high confidence
SeverityWhenBoth(red_flags, combined_score) ==
  LET critical_count ==
        Cardinality({j \in 1..Len(red_flags) : red_flags[j] \in severity_critical_flags})
  IN IF critical_count > 0 /\ combined_score > 80 * Cent THEN "High"
     ELSE IF Len(red_flags) > 3 \/ combined_score > 60 * Cent THEN "Medium"
     ELSE "Low"

_assess_severity(red_flags, combined_score) ==
  LET critical_count ==
        Cardinality({j \in 1..Len(red_flags) : red_flags[j] \in severity_critical_flags})
  IN IF critical_count > 0 \/ combined_score > 80 * Cent THEN "High"
     ELSE IF Len(red_flags) > 3 \/ combined_score > 60 * Cent THEN "Medium"
     ELSE "Low"

_create_description_preview(description) ==
  LET stripped == Strip(description)
  IN IF description = "" THEN "No description available"
     ELSE IF Len(stripped) > 500 THEN SubSeq(stripped, 1, 500) \o "..."
     ELSE stripped

Abs(v) == IF v < 0 THEN 0 - v ELSE v

\* the points before the damping of a fake verdict, in millionths of a point
QualityPoints(analysis_result, features) ==
  LET confidence == analysis_result.combined_confidence
      red_flags  == analysis_result.red_flags_count
      by_flags ==
        IF red_flags = 0 THEN 35
        ELSE IF red_flags = 1 THEN 20
        ELSE IF red_flags = 2 THEN 10
        ELSE IF red_flags = 3 THEN 0
        ELSE IF red_flags <= 5 THEN 0 - 10
        ELSE 0 - red_flags * 8
      by_confidence ==
        IF confidence >= 90 * Scale THEN 25
        ELSE IF confidence >= 80 * Scale THEN 20
        ELSE IF confidence >= 70 * Scale THEN 15
        ELSE IF confidence >= 60 * Scale THEN 10
        ELSE IF confidence >= 50 * Scale THEN 5
        ELSE IF confidence >= 40 * Scale THEN 0
        ELSE IF confidence >= 30 * Scale THEN 0 - 5
        ELSE IF confidence >= 20 * Scale THEN 0 - 10
        ELSE 0 - 20
      prof_ratio == features.professional_term_ratio
      by_terms ==
        IF prof_ratio > 20 * Cent THEN 25
        ELSE IF prof_ratio > 15 * Cent THEN 20
        ELSE IF prof_ratio > 10 * Cent THEN 15
        ELSE IF prof_ratio > 5 * Cent THEN 10
        ELSE 0 - 15
      readability == features.readability_score
      by_readability ==
        IF 40 * Cent <= readability /\ readability <= 70 * Cent THEN 15
        ELSE IF 30 * Cent <= readability /\ readability <= 80 * Cent THEN 10
        ELSE IF readability < 20 * Cent \/ readability > 90 * Cent THEN 0 - 10
        ELSE 0
      lexical_div == features.lexical_diversity
      by_diversity ==
        IF lexical_div > 70 * Cent THEN 10
        ELSE IF lexical_div > 60 * Cent THEN 8
        ELSE IF lexical_div > 50 * Cent THEN 5
        ELSE IF lexical_div < 30 * Cent THEN 0 - 15
        ELSE IF lexical_div < 40 * Cent THEN 0 - 10
        ELSE 0
      domain_score ==
        IF features.domain_exists # 0
          THEN 20 + (IF features.has_suspicious_domain < 30 * Cent THEN 10 ELSE 0)
        ELSE IF features.has_suspicious_domain > 70 * Cent THEN 0 - 30
        ELSE IF features.has_suspicious_domain > 50 * Cent THEN 0 - 20
        ELSE 0 - 10
      sentiment_polarity == features.sentiment_polarity
      by_sentiment ==
        IF Abs(sentiment_polarity) < 20 * Cent THEN 8
        ELSE IF Abs(sentiment_polarity) < 40 * Cent THEN 5
        ELSE IF sentiment_polarity > 70 * Cent THEN 0 - 10
        ELSE IF sentiment_polarity < 0 - 30 * Cent THEN 0 - 5
        ELSE 0
      text_length == features.text_length
      by_length ==
        IF text_length > 800 THEN 10
        ELSE IF text_length > 500 THEN 5
        ELSE IF text_length < 200 THEN 0 - 15
        ELSE IF text_length < 300 THEN 0 - 10
        ELSE 0
      \* sentence_complexity holds the square: 0.5, 1.5, 2.0 squared
      sentence_complexity == features.sentence_complexity
      by_complexity ==
        IF 25 * Cent <= sentence_complexity /\ sentence_complexity <= 225 * Cent THEN 5
        ELSE IF sentence_complexity > 400 * Cent THEN 0 - 5
        ELSE 0
  IN (50 + by_flags + by_confidence + by_terms + by_readability + by_diversity
        + domain_score + by_sentiment + by_length + by_complexity) * Scale
       + (features.text_quality_score - 50 * Cent) * 50

\* a damping that halves every fake verdict's quality, whatever the confidence
DampedByHalf(analysis_result, quality_score) ==
  IF ~analysis_result.is_fake THEN quality_score
  ELSE Max(15 * Scale, (5 * quality_score) \div 10)

\* if is_fake: quality_score = max(floor, quality_score * factor)
Damped(analysis_result, quality_score) ==
  LET confidence == analysis_result.combined_confidence
  IN IF ~analysis_result.is_fake THEN quality_score
     ELSE IF confidence > 80 * Scale THEN Max(5 * Scale, (3 * quality_score) \div 10)
     ELSE IF confidence > 60 * Scale THEN Max(10 * Scale, (4 * quality_score) \div 10)
     ELSE Max(15 * Scale, (5 * quality_score) \div 10)

\* quality_score = max(0, min(100, quality_score))
ClampQuality(quality_score) == Max(0, Min(100 * Scale, quality_score))

\* the number that is mapped to a grade
QualityScore(analysis_result, features) ==
  ClampQuality(Damped(analysis_result, QualityPoints(analysis_result, features)))

Grade(quality_score) ==
  IF quality_score >= 90 * Scale THEN "EXCELLENT"
  ELSE IF quality_score >= 80 * Scale THEN "VERY HIGH"
  ELSE IF quality_score >= 70 * Scale THEN "HIGH"
  ELSE IF quality_score >= 60 * Scale THEN "GOOD"
  ELSE IF quality_score >= 50 * Scale THEN "MODERATE"
  ELSE IF quality_score >= 40 * Scale THEN "FAIR"
  ELSE IF quality_score >= 30 * Scale THEN "LOW"
  ELSE IF quality_score >= 20 * Scale THEN "VERY LOW"
  ELSE IF quality_score >= 10 * Scale THEN "POOR"
  ELSE "SUSPICIOUS"

_assess_job_quality(analysis_result, features) ==
  Grade(QualityScore(analysis_result, features))

\* lines 393-396: the labels of red_flags_dict whose weight is positive
FlagNames(red_flags_dict) ==
  LET kept == SelectSeq(red_flags_dict, LAMBDA e : e[2] > 0)
  IN [j \in 1..Len(kept) |-> kept[j][1]]

\* lines 399-401: features updated with the scan's outcome
WithRedFlags(features, red_flags, red_flags_score) ==
  [features EXCEPT !.red_flag_count  = Len(red_flags),
                   !.red_flags       = red_flags,
                   !.red_flags_score = red_flags_score]

\* lines 422-439
Result(job_data, red_flags, combined_score, red_flags_severity) ==
  [final_prediction    |-> FinalPrediction(combined_score),
   is_fake             |-> IsFake(combined_score),
   ai_confidence       |-> combined_score * 100,
   combined_confidence |-> combined_score * 100,
   red_flags_count     |-> Len(red_flags),
   red_flags_list      |-> red_flags,
   red_flags_severity  |-> red_flags_severity,
   job_portal          |-> Lookup(job_data, "job_portal", "Unknown"),
   company             |-> Lookup(job_data, "company", "Unknown"),
   company_domain      |-> Lookup(job_data, "company_domain", ""),
   job_title           |-> Lookup(job_data, "title", "Unknown"),
   location            |-> Lookup(job_data, "location", "Not Specified"),
   description_preview |->
     _create_description_preview(Lookup(job_data, "description", "")),
   url                 |-> Lookup(job_data, "url", ""),
   success             |-> TRUE,
   error               |-> "None"]

\* except Exception as e: the error result of analyze_from_text and
\* analyze_from_url
ErrorResult(exception) ==
  [error |-> "Failed to analyze job: " \o exception, success |-> FALSE]

\* ------------------------------------------------------------------------
\* Job postings and the requests that score them
\* ------------------------------------------------------------------------

\* a mapping with no key
NoKeys == [key \in {} |-> ""]

\* the job postings handed to the engine: what the portal scrapers and the
\* text parser hand over, each field absent or a string
PostingNames == {"absent", "empty", "scam", "genuine"}
Postings ==
  [name \in PostingNames |->
     CASE name = "absent"  -> NoKeys
       [] name = "empty"   -> ("description" :> "" @@ "company_domain" :> "")
       [] name = "scam"    ->
            ("description" :> "URGENT bitcoin registration fee act now"
               @@ "company_domain" :> "http://acme")
       [] name = "genuine" ->
            ("title" :> "Developer" @@ "company" :> "Acme"
               @@ "company_domain" :> "acme.com" @@ "location" :> "Pune"
               @@ "description" :>
                    "We need a developer with experience in team project development. Good salary and benefits."
               @@ "requirements" :> "Education and skills in analysis."
               @@ "salary" :> "50000" @@ "company_profile" :> "" @@ "job_type" :> ""
               @@ "job_portal" :> "manual_input" @@ "url" :> "N/A")]

\* the sentiment library: its analysis, or an exception at every use
Libraries == {"unavailable", "lexicon"}

\* the workers that serve requests
Workers == {"w1", "w2"}

\* the requests accepted in a run
MaxCalls == 3

\* a local variable that is not bound yet, and one bound to a value
Unbound == <<>>
Bound(value) == <<value>>
ValueOf(local) == local[1]

\* the frame of a request that has not started: analyze_from_text and
\* _analyze_job_data bind their locals as they go
NewFrame ==
  [pc                 |-> "idle",
   self               |-> "None",
   posting            |-> "none",
   job_data           |-> Unbound,
   features           |-> Unbound,
   red_flags          |-> Unbound,
   combined_score     |-> Unbound,
   red_flags_severity |-> Unbound,
   domain_step        |-> "not run",
   result             |-> Unbound,
   exception          |-> "None"]

\* an assignment to a local variable of worker w's call: StoreShared is the
\* assignment to a variable that all calls share
StoreShared(all_frames, w, name, value) ==
  [v \in DOMAIN all_frames |-> [all_frames[v] EXCEPT ![name] = value]]
StoreLocal(all_frames, w, name, value) ==
  [all_frames EXCEPT ![w][name] = value]

\* the keys each step reads with job_data.get, with the defaults
analysis_keys == <<<<"description", "">>, <<"requirements", "">>, <<"salary", "">>>>
domain_keys   == <<<<"company_domain", "">>, <<"description", "">>>>
result_keys ==
  <<<<"job_portal", "Unknown">>, <<"company", "Unknown">>, <<"company_domain", "">>,
    <<"title", "Unknown">>, <<"location", "Not Specified">>, <<"description", "">>,
    <<"url", "">>>>
features_keys ==
  [j \in 1..Len(feature_keys) |-> <<feature_keys[j], "">>]

\* whether one of the reads raises, and the mapping after all of them
ReadsRaise(job_data, keys) ==
  \E j \in 1..Len(keys) : LookupRaises(job_data, keys[j][1])
RECURSIVE AfterReads(_, _)
AfterReads(job_data, keys) ==
  IF keys = <<>> THEN job_data
  ELSE AfterReads(AfterLookup(job_data, Head(keys)[1], Head(keys)[2]), Tail(keys))

\* lines 393-396 of _analyze_job_data: red_flags is a new list in every call,
\* and the JobAnalyzer (self) is left as it was.  CollectOnSelf keeps the
\* list in an attribute of the JobAnalyzer instead.
CollectOnSelf(attributes, red_flags_dict) ==
  LET carried == IF "red_flags" \in DOMAIN attributes
                   THEN attributes["red_flags"] ELSE <<>>
      red_flags == carried \o FlagNames(red_flags_dict)
  IN [self      |-> ("red_flags" :> red_flags) @@ attributes,
      red_flags |-> red_flags]
CollectFlags(attributes, red_flags_dict) ==
  [self      |-> attributes,
   red_flags |-> FlagNames(red_flags_dict)]

\* except Exception as e: pass  (lines 418-419); except LookupError would
\* let the UnboundLocalError of line 417 through
ExceptLookupError(exception) == exception \in {"IndexError", "KeyError"}
ExceptException(exception) == TRUE

\* utils.domain_check.get_company_domain(text), for a text in which http is
\* always followed by :// or s://
HasScheme(text, i) ==
  \/ i + 6 <= Len(text) /\ SubSeq(text, i, i + 6) = "http://"
  \/ i + 7 <= Len(text) /\ SubSeq(text, i, i + 7) = "https://"
\* parsed.scheme + "://" + parsed.netloc: the netloc ends at the first / ? #
UrlOrigin(url) ==
  SubSeq(url, 1, FirstIn(url, IF HasScheme(url, 1) /\ CharAt(url, 5) = "s" THEN 9 ELSE 8,
                         {"/", "?", "#"}) - 1)
\* re.findall(r"https?://\S+", text)[0]
FirstUrl(text, start) == SubSeq(text, start, FirstIn(text, start, SpaceChars) - 1)
UrlStarts(text) == {i \in 1..Len(text) : HasScheme(text, i)}
get_company_domain(text) ==
  IF HasScheme(text, 1) THEN UrlOrigin(text)
  ELSE IF UrlStarts(text) # {}
    THEN UrlOrigin(FirstUrl(text, CHOOSE i \in UrlStarts(text) :
                                    \A j \in UrlStarts(text) : i <= j))
  ELSE "Not available"

\* is_suspicious_domain(domain) raises IndexError: domain.split('.')[-2] of
\* a domain without a dot
is_suspicious_domain_raises(domain) ==
  /\ domain \notin {"", "Not available"}
  /\ ~Contains(domain, ".")

\* analyze_domain_complete(domain + " " + description) raises; whatever the
\* domain's age lookup does is caught in get_domain_age
analyze_domain_raises(job_data) ==
  is_suspicious_domain_raises(
    get_company_domain(Lookup(job_data, "company_domain", "") \o " "
                         \o Lookup(job_data, "description", "")))
DomainRaises == [name \in PostingNames |-> analyze_domain_raises(Postings[name])]

\* analysis_result['job_quality'] = ...
WithQuality(result, job_quality) == ("job_quality" :> job_quality) @@ result

\* the scans and feature sets of the postings, computed once
PostingTexts == {Lookup(Postings[name], "description", "") : name \in PostingNames}
ScanTable == [text \in PostingTexts |-> count_red_flags(text)]
FeatureTable ==
  [name \in PostingNames |->
     [library \in Libraries |-> extract_all_features(library, Postings[name])]]

FeaturesOf(library, job_data) ==
  IF \E name \in PostingNames : Postings[name] = job_data
    THEN FeatureTable[CHOOSE name \in PostingNames : Postings[name] = job_data][library]
    ELSE extract_all_features(library, job_data)

\* _analyze_job_data followed by _assess_job_quality, run alone and in
\* order, the domain-analysis step left out
Assessed(result, features) ==
  WithQuality(result, _assess_job_quality(result, features))
Predicted(job_data, features, red_flags, combined_score) ==
  Assessed(Result(job_data, red_flags, combined_score,
                  _assess_severity(red_flags, combined_score)),
           features)
Flagged(job_data, features, red_flags) ==
  Predicted(job_data, features, red_flags, _fast_prediction(features, red_flags))
Scanned(job_data, features, scan, red_flags) ==
  Flagged(job_data, WithRedFlags(features, red_flags, scan.total_score), red_flags)
Extracted(job_data, features, scan) ==
  Scanned(job_data, features, scan, FlagNames(scan.unique_flags))
Assessment(library, job_data) ==
  Extracted(job_data, FeaturesOf(library, job_data),
            ScanTable[Lookup(job_data, "description", "")])
Assessments ==
  [name \in PostingNames |->
     [library \in Libraries |-> Assessment(library, Postings[name])]]

\* ------------------------------------------------------------------------
\* The state, by the part of the program it belongs to
\* ------------------------------------------------------------------------

varsPipeline == <<analyzer_global, instances, environment, frames, scored, calls>>
varsPredict  == <<pred_features, pred_flags, pred_result, pred_quality>>
varsScan     == <<scan_frags, scan_result, scan_prev, scan_op>>
varsFeatures == <<feat_job_data, feat_features, feat_scan, feat_result>>
varsHttp     == <<http_flask, http_analyzer, http_session, http_served, http_last>>
varsQuality  == <<quality_text, quality_report>>
varsDomain   == <<domain_name, domain_lookup, domain_report>>
varsFlags    == <<flags_text, flags_scan>>
varsSeverity == <<sev_red_flags, sev_score, sev_returned>>
varsSuspicious == <<sus_domain, sus_name, sus_features>>
varsLegitimacy == <<legit_company, legit_domain, legit_lookup, legit_report>>
vars         == <<varsPipeline, varsPredict, varsScan, varsFeatures, varsHttp,
                  varsQuality, varsDomain, varsFlags,
                  varsSeverity,
                  varsSuspicious,
                  varsLegitimacy>>

\* everything but one part
varsBesidePipeline == <<varsPredict, varsScan, varsFeatures, varsHttp, varsQuality, varsDomain, varsFlags, varsSeverity, varsSuspicious, varsLegitimacy>>
varsBesidePredict  == <<varsPipeline, varsScan, varsFeatures, varsHttp, varsQuality, varsDomain, varsFlags, varsSeverity, varsSuspicious, varsLegitimacy>>
varsBesideScan     == <<varsPipeline, varsPredict, varsFeatures, varsHttp, varsQuality, varsDomain, varsFlags, varsSeverity, varsSuspicious, varsLegitimacy>>
varsBesideFeatures == <<varsPipeline, varsPredict, varsScan, varsHttp, varsQuality, varsDomain, varsFlags, varsSeverity, varsSuspicious, varsLegitimacy>>
varsBesideHttp     == <<varsPipeline, varsPredict, varsScan, varsFeatures, varsQuality, varsDomain, varsFlags, varsSeverity, varsSuspicious, varsLegitimacy>>
varsBesideQuality  == <<varsPipeline, varsPredict, varsScan, varsFeatures, varsHttp, varsDomain, varsFlags, varsSeverity, varsSuspicious, varsLegitimacy>>
varsBesideDomain   == <<varsPipeline, varsPredict, varsScan, varsFeatures, varsHttp, varsQuality, varsFlags, varsSeverity, varsSuspicious, varsLegitimacy>>
varsBesideFlags    == <<varsPipeline, varsPredict, varsScan, varsFeatures, varsHttp, varsQuality, varsDomain, varsSeverity, varsSuspicious, varsLegitimacy>>
varsBesideSeverity == <<varsPipeline, varsPredict, varsScan, varsFeatures, varsHttp, varsQuality, varsDomain, varsFlags, varsSuspicious, varsLegitimacy>>
varsBesideSuspicious == <<varsPipeline, varsPredict, varsScan, varsFeatures, varsHttp, varsQuality, varsDomain, varsFlags, varsSeverity, varsLegitimacy>>
varsBesideLegitimacy == <<varsPipeline, varsPredict, varsScan, varsFeatures, varsHttp, varsQuality, varsDomain, varsFlags, varsSeverity, varsSuspicious>>

\* what the process can find installed
Environments ==
  {[library |-> "unavailable", model_file |-> FALSE],
   [library |-> "lexicon",     model_file |-> TRUE]}

\* no request has been accepted
PipelineAtRest ==
  /\ analyzer_global = "None"
  /\ instances = [w \in Workers |-> Unbound]
  /\ frames = [w \in Workers |-> NewFrame]
  /\ scored = <<>>
  /\ calls = 0

\* the parts a specification does not exercise stay as they are here
PipelineUnused ==
  /\ PipelineAtRest
  /\ environment = [library |-> "unavailable", model_file |-> FALSE]
PredictUnused ==
  /\ pred_features = <<>>
  /\ pred_flags = <<>>
  /\ pred_result = <<>>
  /\ pred_quality = <<>>
ScanUnused ==
  /\ scan_frags = <<>>
  /\ scan_result = <<>>
  /\ scan_prev = <<>>
  /\ scan_op = "unused"
FeaturesUnused ==
  /\ feat_job_data = <<>>
  /\ feat_features = <<>>
  /\ feat_scan = <<>>
  /\ feat_result = <<>>
HttpUnused ==
  /\ http_flask = ""
  /\ http_analyzer = FALSE
  /\ http_session = <<>>
  /\ http_served = {}
  /\ http_last = <<>>
QualityUnused ==
  /\ quality_text = ""
  /\ quality_report = <<>>
DomainUnused ==
  /\ domain_name = ""
  /\ domain_lookup = <<>>
  /\ domain_report = <<>>
FlagsUnused ==
  /\ flags_text = ""
  /\ flags_scan = <<>>
SeverityUnused ==
  /\ sev_red_flags = <<>>
  /\ sev_score = 0
  /\ sev_returned = <<>>
SuspiciousUnused ==
  /\ sus_domain = ""
  /\ sus_name = ""
  /\ sus_features = <<>>
LegitimacyUnused ==
  /\ legit_company = ""
  /\ legit_domain = ""
  /\ legit_lookup = <<>>
  /\ legit_report = <<>>

UnusedBesidePipeline ==
  PredictUnused /\ ScanUnused /\ FeaturesUnused /\ HttpUnused /\ QualityUnused /\ DomainUnused /\ FlagsUnused /\ SeverityUnused /\ SuspiciousUnused /\ LegitimacyUnused
UnusedBesidePredict ==
  PipelineUnused /\ ScanUnused /\ FeaturesUnused /\ HttpUnused /\ QualityUnused /\ DomainUnused /\ FlagsUnused /\ SeverityUnused /\ SuspiciousUnused /\ LegitimacyUnused
UnusedBesideScan ==
  PipelineUnused /\ PredictUnused /\ FeaturesUnused /\ HttpUnused /\ QualityUnused /\ DomainUnused /\ FlagsUnused /\ SeverityUnused /\ SuspiciousUnused /\ LegitimacyUnused
UnusedBesideFeatures ==
  PipelineUnused /\ PredictUnused /\ ScanUnused /\ HttpUnused /\ QualityUnused /\ DomainUnused /\ FlagsUnused /\ SeverityUnused /\ SuspiciousUnused /\ LegitimacyUnused
UnusedBesideHttp ==
  PipelineUnused /\ PredictUnused /\ ScanUnused /\ FeaturesUnused /\ QualityUnused /\ DomainUnused /\ FlagsUnused /\ SeverityUnused /\ SuspiciousUnused /\ LegitimacyUnused
UnusedBesideQuality ==
  PipelineUnused /\ PredictUnused /\ ScanUnused /\ FeaturesUnused /\ HttpUnused /\ DomainUnused /\ FlagsUnused /\ SeverityUnused /\ SuspiciousUnused /\ LegitimacyUnused
UnusedBesideDomain ==
  PipelineUnused /\ PredictUnused /\ ScanUnused /\ FeaturesUnused /\ HttpUnused /\ QualityUnused /\ FlagsUnused /\ SeverityUnused /\ SuspiciousUnused /\ LegitimacyUnused
UnusedBesideFlags ==
  PipelineUnused /\ PredictUnused /\ ScanUnused /\ FeaturesUnused /\ HttpUnused /\ QualityUnused /\ DomainUnused /\ SeverityUnused /\ SuspiciousUnused /\ LegitimacyUnused
UnusedBesideSeverity ==
  PipelineUnused /\ PredictUnused /\ ScanUnused /\ FeaturesUnused /\ HttpUnused /\ QualityUnused /\ DomainUnused /\ FlagsUnused /\ SuspiciousUnused /\ LegitimacyUnused
UnusedBesideSuspicious ==
  PipelineUnused /\ PredictUnused /\ ScanUnused /\ FeaturesUnused /\ HttpUnused /\ QualityUnused /\ DomainUnused /\ FlagsUnused /\ SeverityUnused /\ LegitimacyUnused
UnusedBesideLegitimacy ==
  PipelineUnused /\ PredictUnused /\ ScanUnused /\ FeaturesUnused /\ HttpUnused /\ QualityUnused /\ DomainUnused /\ FlagsUnused /\ SeverityUnused /\ SuspiciousUnused

\* ------------------------------------------------------------------------
\* Requests: routes.get_analyzer, then JobAnalyzer.analyze_from_text or
\* analyze_from_url, one action per step, any number of workers at once
\* ------------------------------------------------------------------------

Init ==
  /\ PipelineAtRest
  /\ environment \in Environments
  /\ UnusedBesidePipeline

Goto(all_frames, w, pc) == [all_frames EXCEPT ![w].pc = pc]
Raise(all_frames, w, exception) ==
  [all_frames EXCEPT ![w].pc = "except", ![w].exception = exception]

\* the job_data of worker w's call after its reads, the object the caller owns
Read(all_frames, w, keys) ==
  [all_frames EXCEPT ![w].job_data = Bound(AfterReads(ValueOf(@), keys))]

\* a request that has been served: the posting, what the caller's job_data
\* holds after the call, how the domain-analysis step ended, and the result
\* given to the caller
Served(frame, result) ==
  [posting     |-> frame.posting,
   job_data    |-> frame.job_data,
   domain_step |-> frame.domain_step,
   result      |-> result]

\* a worker accepts a request and calls get_analyzer()
Call(w) ==
  /\ frames[w].pc = "idle"
  /\ calls < MaxCalls
  /\ calls' = calls + 1
  /\ frames' = [frames EXCEPT ![w] = [NewFrame EXCEPT !.pc = "check"]]
  /\ UNCHANGED <<varsBesidePipeline, analyzer_global, instances, environment, scored>>

\* get_analyzer: if _analyzer is None
CheckAnalyzer(w) ==
  /\ frames[w].pc = "check"
  /\ frames' = IF analyzer_global = "None"
                 THEN Goto(frames, w, "create")
                 ELSE [frames EXCEPT ![w].pc = "obtain", ![w].self = analyzer_global]
  /\ UNCHANGED <<varsBesidePipeline, analyzer_global, instances, environment, scored, calls>>

\* get_analyzer: _analyzer = JobAnalyzer(); return _analyzer
CreateAnalyzer(w) ==
  /\ frames[w].pc = "create"
  /\ instances' =
       [instances EXCEPT ![w] =
          Bound("model_loaded" :> IF environment.model_file THEN "True" ELSE "False")]
  /\ analyzer_global' = w
  /\ frames' = [frames EXCEPT ![w].pc = "obtain", ![w].self = w]
  /\ UNCHANGED <<varsBesidePipeline, environment, scored, calls>>

\* job_data = self._parse_job_text(...) or ScraperManager.scrape(url)
Obtain(w, name) ==
  /\ frames[w].pc = "obtain"
  /\ frames' = [frames EXCEPT ![w].pc = "features", ![w].posting = name,
                              ![w].job_data = Bound(Postings[name])]
  /\ UNCHANGED <<varsBesidePipeline, analyzer_global, instances, environment, scored, calls>>

\* ScraperManager.scrape raises: unsupported portal, page not reachable
ObtainFails(w) ==
  /\ frames[w].pc = "obtain"
  /\ frames' = Raise(frames, w, "Unsupported job portal")
  /\ UNCHANGED <<varsBesidePipeline, analyzer_global, instances, environment, scored, calls>>

\* line 382: features, combined_text = extract_all_features(job_data)
ExtractFeatures(w) ==
  /\ frames[w].pc = "features"
  /\ LET job_data == ValueOf(frames[w].job_data)
     IN frames' =
          IF ReadsRaise(job_data, features_keys) THEN Raise(frames, w, "KeyError")
          ELSE Goto(Read(StoreLocal(frames, w, "features",
                                    Bound(FeaturesOf(environment.library, job_data))),
                         w, features_keys),
                    w, "red_flags")
  /\ UNCHANGED <<varsBesidePipeline, analyzer_global, instances, environment, scored, calls>>

\* lines 393-401: red_flags and the updated features bound, self as it is
\* after the call
Collect(w, red_flags_score, collected) ==
  /\ frames' =
       Goto(Read(StoreLocal(StoreLocal(frames, w, "red_flags",
                                       Bound(collected.red_flags)),
                            w, "features",
                            Bound(WithRedFlags(ValueOf(frames[w].features),
                                               collected.red_flags, red_flags_score))),
                 w, analysis_keys),
            w, "predict")
  /\ instances' = [instances EXCEPT ![frames[w].self] = Bound(collected.self)]

\* line 390: the pair count_red_flags returned
Scan(w, scan) ==
  Collect(w, scan.total_score,
          CollectFlags(ValueOf(instances[frames[w].self]), scan.unique_flags))

\* lines 385-401: count_red_flags(description), red_flags, features updated
CountRedFlags(w) ==
  /\ frames[w].pc = "red_flags"
  /\ IF ReadsRaise(ValueOf(frames[w].job_data), analysis_keys)
       THEN /\ frames' = Raise(frames, w, "KeyError")
            /\ UNCHANGED instances
       ELSE Scan(w, ScanTable[Lookup(ValueOf(frames[w].job_data), "description", "")])
  /\ UNCHANGED <<varsBesidePipeline, analyzer_global, environment, scored, calls>>

\* lines 404-410: combined_score, final_prediction, red_flags_severity
Score(w, red_flags, combined_score) ==
  frames' =
    Goto(StoreLocal(StoreLocal(frames, w, "combined_score", Bound(combined_score)),
                    w, "red_flags_severity",
                    Bound(_assess_severity(red_flags, combined_score))),
         w, "domain")

Predict(w) ==
  /\ frames[w].pc = "predict"
  /\ Score(w, ValueOf(frames[w].red_flags),
           _fast_prediction(ValueOf(frames[w].features), ValueOf(frames[w].red_flags)))
  /\ UNCHANGED <<varsBesidePipeline, analyzer_global, instances, environment, scored, calls>>

\* the end of the domain-analysis step: the except clause of lines 418-419
AfterDomainStep(all_frames, w, outcome, exception) ==
  LET noted == [all_frames EXCEPT ![w].domain_step = outcome]
  IN IF exception = "None" \/ ExceptException(exception)
       THEN Goto(noted, w, "result")
       ELSE Raise(noted, w, exception)

\* lines 413-414: if domain is false
SkipDomainAnalysis(w) ==
  /\ frames[w].pc = "domain"
  /\ LET job_data == ValueOf(frames[w].job_data)
     IN /\ Lookup(job_data, "company_domain", "") = ""
        /\ frames' =
             IF ReadsRaise(job_data, <<domain_keys[1]>>) THEN Raise(frames, w, "KeyError")
             ELSE AfterDomainStep(Read(frames, w, <<domain_keys[1]>>), w, "skipped", "None")
  /\ UNCHANGED <<varsBesidePipeline, analyzer_global, instances, environment, scored, calls>>

\* line 416: analyze_domain_complete raises (the IndexError of
\* is_suspicious_domain on a domain without a dot)
DomainAnalysisRaises(w) ==
  /\ frames[w].pc = "domain"
  /\ LET job_data == ValueOf(frames[w].job_data)
     IN /\ Lookup(job_data, "company_domain", "") # ""
        /\ DomainRaises[frames[w].posting]
        /\ frames' =
             IF ReadsRaise(job_data, domain_keys) THEN Raise(frames, w, "KeyError")
             ELSE AfterDomainStep(Read(frames, w, domain_keys), w,
                                  "analysis raised", "IndexError")
  /\ UNCHANGED <<varsBesidePipeline, analyzer_global, instances, environment, scored, calls>>

\* line 416 returns, with or without the domain's age, and line 417 stores
\* into result, a local that is bound at line 422 only
DomainAnalysisReturns(w) ==
  /\ frames[w].pc = "domain"
  /\ LET job_data == ValueOf(frames[w].job_data)
     IN /\ Lookup(job_data, "company_domain", "") # ""
        /\ ~DomainRaises[frames[w].posting]
        /\ frames' =
             IF ReadsRaise(job_data, domain_keys) THEN Raise(frames, w, "KeyError")
             ELSE IF frames[w].result = Unbound
               THEN AfterDomainStep(Read(frames, w, domain_keys), w,
                                    "recording raised", "UnboundLocalError")
               ELSE AfterDomainStep(Read(frames, w, domain_keys), w, "recorded", "None")
  /\ UNCHANGED <<varsBesidePipeline, analyzer_global, instances, environment, scored, calls>>

\* lines 422-441: result
CreateResult(w) ==
  /\ frames[w].pc = "result"
  /\ LET job_data == ValueOf(frames[w].job_data)
     IN frames' =
          IF ReadsRaise(job_data, result_keys) THEN Raise(frames, w, "KeyError")
          ELSE Goto(Read(StoreLocal(frames, w, "result",
                           Bound(Result(job_data, ValueOf(frames[w].red_flags),
                                        ValueOf(frames[w].combined_score),
                                        ValueOf(frames[w].red_flags_severity)))),
                         w, result_keys),
                    w, "quality")
  /\ UNCHANGED <<varsBesidePipeline, analyzer_global, instances, environment, scored, calls>>

\* analysis_result['job_quality'] = self._assess_job_quality(analysis_result, features)
AssessQuality(w) ==
  /\ frames[w].pc = "quality"
  /\ LET result   == ValueOf(frames[w].result)
         features == ValueOf(frames[w].features)
     IN frames' =
          Goto(StoreLocal(frames, w, "result",
                 Bound(WithQuality(result, _assess_job_quality(result, features)))),
               w, "return")
  /\ UNCHANGED <<varsBesidePipeline, analyzer_global, instances, environment, scored, calls>>

\* return analysis_result
Return(w) ==
  /\ frames[w].pc = "return"
  /\ scored' = Append(scored, Served(frames[w], ValueOf(frames[w].result)))
  /\ frames' = [frames EXCEPT ![w] = NewFrame]
  /\ UNCHANGED <<varsBesidePipeline, analyzer_global, instances, environment, calls>>

\* except Exception as e: return {'error': ..., 'success': False}
ReturnError(w) ==
  /\ frames[w].pc = "except"
  /\ scored' = Append(scored, Served(frames[w], ErrorResult(frames[w].exception)))
  /\ frames' = [frames EXCEPT ![w] = NewFrame]
  /\ UNCHANGED <<varsBesidePipeline, analyzer_global, instances, environment, calls>>

Next ==
  \E w \in Workers :
    \/ Call(w)
    \/ CheckAnalyzer(w)
    \/ CreateAnalyzer(w)
    \/ \E name \in PostingNames : Obtain(w, name)
    \/ ObtainFails(w)
    \/ ExtractFeatures(w)
    \/ CountRedFlags(w)
    \/ Predict(w)
    \/ SkipDomainAnalysis(w)
    \/ DomainAnalysisRaises(w)
    \/ DomainAnalysisReturns(w)
    \/ CreateResult(w)
    \/ AssessQuality(w)
    \/ Return(w)
    \/ ReturnError(w)

Spec == Init /\ [][Next]_vars

\* ------------------------------------------------------------------------
\* Prediction: lines 404-439 of _analyze_job_data and _assess_job_quality,
\* applied to feature sets and finding lists drawn from a grid
\* ------------------------------------------------------------------------

\* what the text contributes to a feature set
TextProfiles ==
  {[text_quality_score |-> 20 * Cent, text_length |-> 100, readability_score |-> 10 * Cent,
    professional_term_ratio |-> 0, lexical_diversity |-> 20 * Cent,
    sentence_complexity |-> 0],
   [text_quality_score |-> 65 * Cent, text_length |-> 700, readability_score |-> 50 * Cent,
    professional_term_ratio |-> 18 * Cent, lexical_diversity |-> 65 * Cent,
    sentence_complexity |-> 100 * Cent],
   [text_quality_score |-> 80 * Cent, text_length |-> 1200, readability_score |-> 95 * Cent,
    professional_term_ratio |-> 25 * Cent, lexical_diversity |-> 80 * Cent,
    sentence_complexity |-> 500 * Cent],
   [text_quality_score |-> 50 * Cent, text_length |-> 250, readability_score |-> 35 * Cent,
    professional_term_ratio |-> 8 * Cent, lexical_diversity |-> 45 * Cent,
    sentence_complexity |-> 10 * Cent],
   [text_quality_score |-> 75 * Cent, text_length |-> 400, readability_score |-> 85 * Cent,
    professional_term_ratio |-> 12 * Cent, lexical_diversity |-> 35 * Cent,
    sentence_complexity |-> 300 * Cent]}

\* what the findings contribute: the list, its score, and the suspicion and
\* combination scores of extract_all_features
FlagProfiles ==
  {[red_flags |-> <<>>, red_flags_score |-> 0, suspicion_score |-> 0,
    red_flag_combo_score |-> 0],
   [red_flags |-> <<"Urgency language">>, red_flags_score |-> 2,
    suspicion_score |-> 10 * Cent, red_flag_combo_score |-> 0],
   [red_flags |-> <<"Urgency language">>, red_flags_score |-> 10,
    suspicion_score |-> 10 * Cent, red_flag_combo_score |-> 0],
   [red_flags |-> <<"bitcoin", "whatsapp only", "Urgency language">>, red_flags_score |-> 15,
    suspicion_score |-> 30 * Cent, red_flag_combo_score |-> 80 * Cent],
   [red_flags |-> <<"registration fee", "bitcoin", "no interview", "telegram",
                    "easy money", "act now", "Urgency language">>,
    red_flags_score |-> 40, suspicion_score |-> Scale,
    red_flag_combo_score |-> 230 * Cent]}

DomainProfiles ==
  {[domain_exists |-> 1, has_suspicious_domain |-> 0],
   [domain_exists |-> 1, has_suspicious_domain |-> 50 * Cent],
   [domain_exists |-> 1, has_suspicious_domain |-> 70 * Cent],
   [domain_exists |-> 0, has_suspicious_domain |-> Scale]}

Polarities == {0 - 50 * Cent, 0, 30 * Cent, 60 * Cent, 80 * Cent}

\* a feature set with the keys extract_all_features gives it
FeatureSet(text, flags, domain, polarity) ==
  [text_length             |-> text.text_length,
   word_count              |-> text.text_length \div 6,
   avg_word_length         |-> 5 * Scale,
   unique_word_ratio       |-> 60 * Cent,
   uppercase_ratio         |-> 0,
   digit_ratio             |-> 0,
   spelling_errors         |-> 0,
   grammar_score           |-> text.text_length,
   sentence_count          |-> 1,
   domain_exists           |-> domain.domain_exists,
   domain_length           |-> 8 * domain.domain_exists,
   has_suspicious_domain   |-> domain.has_suspicious_domain,
   company_name_length     |-> 0,
   red_flag_count          |-> Len(flags.red_flags),
   red_flags               |-> flags.red_flags,
   red_flags_score         |-> flags.red_flags_score,
   sentiment_polarity      |-> polarity,
   sentiment_subjectivity  |-> 50 * Cent,
   readability_score       |-> text.readability_score,
   lexical_diversity       |-> text.lexical_diversity,
   sentence_complexity     |-> text.sentence_complexity,
   professional_term_ratio |-> text.professional_term_ratio,
   red_flag_combo_score    |-> flags.red_flag_combo_score,
   red_flag_combinations   |-> <<>>,
   text_quality_score      |-> text.text_quality_score,
   suspicion_score         |-> flags.suspicion_score]

\* the feature sets of the grid, and those of the postings
GridFeatures ==
  {FeatureSet(text, flags, domain, polarity) :
     text \in TextProfiles, flags \in FlagProfiles,
     domain \in DomainProfiles, polarity \in Polarities}
ScannedFeatures(features, scan) ==
  WithRedFlags(features, FlagNames(scan.unique_flags), scan.total_score)
PostingFeatures ==
  {ScannedFeatures(FeatureTable[name][library],
                   ScanTable[Lookup(Postings[name], "description", "")]) :
     name \in PostingNames, library \in Libraries}

\* a short posting of a company with a domain, and the feature set
\* _analyze_job_data scores for it
BitcoinPosting ==
  ("description" :> "Strategy and analysis are part of the role. We accept bitcoin."
     @@ "company_domain" :> "acme.xyz")
BitcoinFeatures ==
  {ScannedFeatures(extract_all_features(library, BitcoinPosting),
                   count_red_flags(BitcoinPosting["description"])) :
     library \in Libraries}

InitPredict ==
  /\ pred_features \in GridFeatures \cup PostingFeatures \cup BitcoinFeatures
  /\ pred_flags = pred_features.red_flags
  /\ pred_result = <<>>
  /\ pred_quality = <<>>
  /\ UnusedBesidePredict

\* lines 404-439
Assess(red_flags, combined_score) ==
  pred_result' = <<Result(NoKeys, red_flags, combined_score,
                          _assess_severity(red_flags, combined_score))>>

PredictDrawn ==
  /\ pred_result = <<>>
  /\ Assess(pred_flags, _fast_prediction(pred_features, pred_flags))
  /\ UNCHANGED <<pred_features, pred_flags, pred_quality, varsBesidePredict>>

\* _assess_job_quality(analysis_result, features)
Grading(quality_score) ==
  pred_quality' = <<[quality_score |-> quality_score, job_quality |-> Grade(quality_score)]>>

AssessDrawn ==
  /\ pred_result # <<>>
  /\ pred_quality = <<>>
  /\ Grading(QualityScore(pred_result[1], pred_features))
  /\ UNCHANGED <<pred_features, pred_flags, pred_result, varsBesidePredict>>

NextPredict == PredictDrawn \/ AssessDrawn

SpecPredict == InitPredict /\ [][NextPredict]_vars

\* ------------------------------------------------------------------------
\* extract_all_features, applied to job postings drawn field by field
\* ------------------------------------------------------------------------

\* the values each field of a drawn posting takes
FieldValues ==
  [description |->
     {"", "URGENT!!!", "Call 9876543210", "I am a go to",
      "Easy money bitcoin guaranteed. Mail scam@gmail.com now, work from home.",
      "payment required urgent hiring",
      "Responsibilities requirements qualifications skills experience education benefits salary"},
   requirements    |-> {"", "Education and skills in analysis and development."},
   company_profile |-> {"", "ACME"},
   company_domain  |-> {"", "acme.com", "x.tk", "123.45"},
   company_name    |-> {"", "Acme"},
   salary          |-> {"", "Unlimited"}]

\* the drawn postings: one without any key, and every choice of the fields
FeaturePostings ==
  {NoKeys} \cup
  {[description     |-> description,    requirements   |-> requirements,
    company_profile |-> company_profile, company_domain |-> company_domain,
    company_name    |-> company_name,    salary         |-> salary] :
     description     \in FieldValues.description,
     requirements    \in FieldValues.requirements,
     company_profile \in FieldValues.company_profile,
     company_domain  \in FieldValues.company_domain,
     company_name    \in FieldValues.company_name,
     salary          \in FieldValues.salary}

\* what count_red_flags returns for the descriptions, computed once
FeatureScans ==
  [text \in FieldValues.description \cup {""} |-> count_red_flags(text)]

InitFeatures ==
  /\ feat_job_data \in FeaturePostings
  /\ feat_features = <<>>
  /\ feat_scan = <<>>
  /\ feat_result = <<>>
  /\ UnusedBesideFeatures

\* features, combined_text = extract_all_features(job_data)
ExtractAll(library) ==
  /\ feat_features = <<>>
  /\ feat_features' = <<extract_all_features(library, feat_job_data)>>
  /\ UNCHANGED <<feat_job_data, feat_scan, feat_result, varsBesideFeatures>>

\* _analyze_job_data, lines 385-401: red_flags_score, red_flags_dict =
\* count_red_flags(description), and features updated with the outcome
UpdateWithRedFlags(scan) ==
  /\ feat_features # <<>>
  /\ feat_scan = <<>>
  /\ feat_scan' = <<scan>>
  /\ feat_features' = <<WithRedFlags(feat_features[1], FlagNames(scan.unique_flags),
                                     scan.total_score)>>
  /\ UNCHANGED <<feat_job_data, feat_result, varsBesideFeatures>>

\* the assessment when the labels of extract_red_flags are kept as findings
AssessRaised(red_flags, combined_score) ==
  LET raised == extract_red_flags(Lookup(feat_job_data, "description", ""),
                                  Lookup(feat_job_data, "requirements", ""),
                                  Lookup(feat_job_data, "salary", ""))
  IN /\ feat_scan # <<>>
     /\ feat_result = <<>>
     /\ feat_result' = <<Result(feat_job_data, red_flags, combined_score,
                                _assess_severity(raised \o red_flags, combined_score))>>
     /\ UNCHANGED <<feat_job_data, feat_features, feat_scan, varsBesideFeatures>>

\* _analyze_job_data, lines 403-439: the score, the severity and the result
\* made of the updated features and the findings of count_red_flags
AssessFlagged(red_flags, combined_score) ==
  /\ feat_scan # <<>>
  /\ feat_result = <<>>
  /\ feat_result' = <<Result(feat_job_data, red_flags, combined_score,
                             _assess_severity(red_flags, combined_score))>>
  /\ UNCHANGED <<feat_job_data, feat_features, feat_scan, varsBesideFeatures>>

NextFeatures ==
  \/ \E library \in Libraries : ExtractAll(library)
  \/ UpdateWithRedFlags(FeatureScans[Lookup(feat_job_data, "description", "")])
  \/ /\ feat_scan # <<>>
     /\ AssessFlagged(feat_features[1].red_flags,
                      _fast_prediction(feat_features[1], feat_features[1].red_flags))

SpecFeatures == InitFeatures /\ [][NextFeatures]_vars

\* the features that are ratios, and those that are counts
ratio_features ==
  {"uppercase_ratio", "digit_ratio", "readability_score", "lexical_diversity",
   "professional_term_ratio", "has_suspicious_domain", "text_quality_score",
   "suspicion_score"}
count_features ==
  {"text_length", "word_count", "sentence_count", "spelling_errors", "red_flag_count",
   "domain_length"}

\* C11: every ratio feature extract_all_features returns lies between 0 and
\* 1, and every count feature is a non-negative integer, for every posting,
\* one whose text fields are all empty included
C11_RatiosAndCountsInRange ==
  feat_features # <<>> =>
    /\ \A key \in ratio_features :
         /\ feat_features[1][key] >= 0
         /\ feat_features[1][key] <= Scale
    /\ \A key \in count_features : feat_features[1][key] \in Nat

\* the features of a posting whose fields are all empty were returned
C11_EmptyFieldsExtracted ==
  /\ feat_features # <<>>
  /\ DOMAIN feat_job_data # {}
  /\ \A key \in DOMAIN feat_job_data : feat_job_data[key] = ""

\* ------------------------------------------------------------------------
\* The web application: /api/analyze, /api/analyze-batch and /result
\* ------------------------------------------------------------------------

\* the browsers, each with a session cookie of its own
Clients == {"c1", "c2"}

\* request.json differs between Flask releases, and the repository names
\* none
FlaskVersions == {"before 2.1", "2.1 or later"}

\* JSON values
Str(s)      == [json |-> "string", str |-> s]
Null        == [json |-> "null"]
Obj(fields) == [json |-> "object", fields |-> fields]
List(items) == [json |-> "list", items |-> items]

\* a request body: none at all, a JSON body of no bytes, or a JSON value
NoBody       == [kind |-> "none"]
BlankBody    == [kind |-> "blank"]
Json(value)  == [kind |-> "json", value |-> value]

\* request.json raises: BadRequest for a JSON body that does not parse,
\* UnsupportedMediaType (from 2.1 on) for a request that is not JSON
request_json_raises(flask, body) ==
  \/ body.kind = "blank"
  \/ body.kind = "none" /\ flask = "2.1 or later"

\* request.json: None before 2.1 for a request that is not JSON
request_json(body) == IF body.kind = "json" THEN body.value ELSE Null

\* not data
Falsy(data) ==
  \/ data.json = "null"
  \/ data.json = "object" /\ DOMAIN data.fields = {}
  \/ data.json = "list" /\ data.items = <<>>
  \/ data.json = "string" /\ data.str = ""

\* data.get(key, default).strip() raises AttributeError: data has no get,
\* or the value has no strip
GetStripRaises(data, key) ==
  \/ data.json # "object"
  \/ key \in DOMAIN data.fields /\ data.fields[key].json # "string"

\* data.get(key, default).strip()
GetStrip(data, key, default) ==
  IF key \in DOMAIN data.fields THEN Strip(data.fields[key].str) ELSE Strip(default)

\* s.startswith(prefix)
StartsWith(s, prefix) ==
  /\ Len(s) >= Len(prefix)
  /\ SubSeq(s, 1, Len(prefix)) = prefix

detect_input_type(job_input) ==
  IF \/ StartsWith(Strip(job_input), "http://")
     \/ StartsWith(Strip(job_input), "https://")
     \/ StartsWith(Strip(job_input), "www.")
     \/ Contains(Strip(job_input), "://")
     \/ AnyPresent(<<"linkedin.com", "naukri.com", "indeed.com", "internshala.com", "jobs.",
                     ".com/jobs", "/job">>, Lower(Strip(job_input)))
    THEN "url"
  ELSE IF /\ Len(Strip(job_input)) > 100
          /\ AnyPresent(<<"responsibilities", "requirements", "qualifications", "skills",
                          "experience", "salary", "company", "location", "benefits">>,
                        Lower(Strip(job_input)))
    THEN "text"
  ELSE IF \/ CountIn(Strip(job_input), {"/"}) + 1 > 3
          \/ Contains(Strip(job_input), "@")
    THEN "url"
  ELSE "text"

\* urlparse(url).netloc of a url that starts with http:// or https://
Netloc(url) ==
  SubSeq(url, IF CharAt(url, 5) = "s" THEN 9 ELSE 8,
         FirstIn(url, IF CharAt(url, 5) = "s" THEN 9 ELSE 8, {"/", "?", "#"}) - 1)

\* urlparse(url) raises ValueError
UrlparseRaises(url) == Contains(Netloc(url), "[") # Contains(Netloc(url), "]")

portals == <<"linkedin.com", "naukri.com", "indeed.com", "internshala.com">>
portal_names == <<"linkedin", "naukri", "indeed", "internshala">>

Invalid(error) == [valid |-> FALSE, error |-> error, portal |-> "None", warnings |-> <<>>]

\* lines 68-101, for a url with its scheme
ValidateUrl(url) ==
  IF UrlparseRaises(url) \/ Netloc(url) = "" THEN Invalid("Invalid URL format")
  ELSE [valid    |-> TRUE,
        error    |-> "None",
        portal   |-> IF AnyPresent(portals, Lower(url))
                       THEN portal_names[CHOOSE j \in 1..Len(portals) :
                              /\ Contains(Lower(url), portals[j])
                              /\ \A k \in 1..(j - 1) : ~Contains(Lower(url), portals[k])]
                       ELSE "None",
        warnings |->
          (IF AnyPresent(portals, Lower(url)) THEN <<>>
           ELSE <<"URL is not from a supported job portal. Analysis may be limited.">>)
          \o (IF AnyPresent(<<"bit.ly", "tinyurl", "goo.gl", "temp-mail", "10minutemail">>,
                            Lower(url))
                THEN <<"URL contains link shortener or temporary service - this is suspicious">>
                ELSE <<>>)]

validate_job_input(job_input, input_type) ==
  IF input_type = "url"
    THEN IF StartsWith(job_input, "http://") \/ StartsWith(job_input, "https://")
           THEN ValidateUrl(job_input)
         ELSE IF StartsWith(job_input, "www.") THEN ValidateUrl("https://" \o job_input)
         ELSE Invalid("URL must start with http:// or https://")
  ELSE IF Len(job_input) < 50
    THEN Invalid("Job description is too short. Please provide more details.")
  ELSE [valid    |-> TRUE,
        error    |-> "None",
        portal   |-> "None",
        warnings |->
          (IF Len(job_input) > 10000
             THEN <<"Job description is very long. Analysis may take longer.">> ELSE <<>>)
          \o (IF CountPresent(<<"responsibilities", "requirements", "qualifications",
                               "skills", "experience", "education", "benefits", "salary",
                               "compensation">>, Lower(job_input)) < 2
                THEN <<"Job description lacks standard professional sections. This may indicate a suspicious posting.">>
                ELSE <<>>)
          \o (IF 10 * Cardinality({j \in 1..Len(job_input) :
                     CharAt(job_input, j) \notin
                       UpperSet \cup LowerSet \cup DigitChars
                         \cup {" ", ".", ",", "!", "?", "-", "(", ")"}})
                   > Len(job_input)
                THEN <<"Job description contains many special characters - this is unusual">>
                ELSE <<>>)]

\* what scraping a url comes to: the posting, or an exception
ScrapeOutcomes == {"scraped", "unreachable"}

\* analyzer.analyze_from_url(job_input): the assessment of the posting
\* scraped, or the error result
analyze_from_url(url, outcome) ==
  IF outcome = "unreachable" THEN ErrorResult("unreachable")
  ELSE [success |-> TRUE, error |-> "None", url |-> url]

\* analyzer.analyze_from_text(job_input): the assessment of the posting
\* parsed from the text
analyze_from_text(job_description_text) ==
  [success |-> TRUE, error |-> "None", url |-> "N/A",
   description_preview |-> _create_description_preview(Strip(job_description_text))]

\* a reply: its status, its JSON body, the analyses run for it, and what the
\* handler stored in the session
Reply(status, payload, analyses, stored) ==
  [status |-> status, payload |-> payload, analyses |-> analyses, stored |-> stored]
ServerError(exception, analyses) ==
  Reply(500, [error |-> "Server error: " \o exception, success |-> FALSE], analyses, <<>>)
BadInput(error) == Reply(400, [error |-> error], 0, <<>>)

\* the result is stored before it is looked at
StoredUnchecked(result, validation_result) ==
  IF ~result.success /\ result.error \notin {"None", ""}
    THEN Reply(400, result, 1, <<("input_validation" :> validation_result) @@ result>>)
  ELSE Reply(200, ("input_validation" :> validation_result) @@ result, 1,
             <<("input_validation" :> validation_result) @@ result>>)

\* lines 178-188
AnalyzeChecked(result, validation_result) ==
  IF ~result.success /\ result.error \notin {"None", ""} THEN Reply(400, result, 1, <<>>)
  ELSE Reply(200, ("input_validation" :> validation_result) @@ result, 1,
             <<("input_validation" :> validation_result) @@ result>>)

\* lines 155-176
AnalyzeInput(job_input, input_type, outcome) ==
  IF job_input = "" THEN BadInput("Please provide job URL or description")
  ELSE IF input_type \notin {"url", "text"}
    THEN BadInput("Invalid input_type. Use \"url\", \"text\", or \"auto\"")
  ELSE IF ~validate_job_input(job_input, input_type).valid
    THEN BadInput(validate_job_input(job_input, input_type).error)
  ELSE AnalyzeChecked(IF input_type = "url" THEN analyze_from_url(job_input, outcome)
                      ELSE analyze_from_text(job_input),
                      validate_job_input(job_input, input_type))

\* if input_type == 'auto': input_type = detect_input_type(job_input)
Resolved(job_input, input_type) ==
  IF input_type = "auto" THEN detect_input_type(job_input) ELSE input_type

analyze_job(flask, body, outcome) ==
  IF request_json_raises(flask, body) THEN ServerError("request.json", 0)
  ELSE IF Falsy(request_json(body)) THEN BadInput("No data provided")
  ELSE IF \/ GetStripRaises(request_json(body), "job_input")
          \/ GetStripRaises(request_json(body), "input_type")
    THEN ServerError("AttributeError", 0)
  ELSE AnalyzeInput(GetStrip(request_json(body), "job_input", ""),
                    Resolved(GetStrip(request_json(body), "job_input", ""),
                             GetStrip(request_json(body), "input_type", "auto")),
                    outcome)

\* 'jobs' in data
HasJobs(data) ==
  \/ data.json = "object" /\ "jobs" \in DOMAIN data.fields
  \/ data.json = "list" /\ \E j \in 1..Len(data.items) : data.items[j] = Str("jobs")
  \/ data.json = "string" /\ Contains(data.str, "jobs")

\* lines 215-216 raise AttributeError for this job
JobRaises(job) == GetStripRaises(job, "job_input") \/ GetStripRaises(job, "input_type")

\* if not job_input
JobIsEmpty(job) == GetStrip(job, "job_input", "") = ""

\* lines 215-229: what one job adds to results
JobResult(job, outcome) ==
  IF JobIsEmpty(job) THEN [error |-> "Empty job input", success |-> FALSE]
  ELSE IF GetStrip(job, "input_type", "url") = "url"
    THEN analyze_from_url(GetStrip(job, "job_input", ""), outcome)
  ELSE analyze_from_text(GetStrip(job, "job_input", ""))

\* the jobs analysed before the loop ends, at its first job that raises or
\* after the last job
AnalysedJobs(jobs) ==
  {j \in 1..Len(jobs) : /\ \A k \in 1..j : ~JobRaises(jobs[k])
                        /\ ~JobIsEmpty(jobs[j])}

\* the loop ends at the first analysis that fails
LoopUntilFailure(jobs, outcomes) ==
  IF \E j \in 1..Len(jobs) : JobRaises(jobs[j])
    THEN ServerError("AttributeError", Cardinality(AnalysedJobs(jobs)))
  ELSE Reply(200,
             [total_jobs |-> Len(jobs),
              results    |->
                SubSeq([j \in 1..Len(jobs) |-> JobResult(jobs[j], outcomes[j])], 1,
                       Cardinality({j \in 1..Len(jobs) :
                         \A k \in 1..(j - 1) :
                           \/ JobResult(jobs[k], outcomes[k]).success
                           \/ JobIsEmpty(jobs[k])})),
              success    |-> TRUE],
             Cardinality(AnalysedJobs(jobs)), <<>>)

\* lines 212-235
BatchLoop(jobs, outcomes) ==
  IF \E j \in 1..Len(jobs) : JobRaises(jobs[j])
    THEN ServerError("AttributeError", Cardinality(AnalysedJobs(jobs)))
  ELSE Reply(200,
             [total_jobs |-> Len(jobs),
              results    |-> [j \in 1..Len(jobs) |-> JobResult(jobs[j], outcomes[j])],
              success    |-> TRUE],
             Cardinality(AnalysedJobs(jobs)), <<>>)

analyze_batch(flask, body, outcomes) ==
  IF request_json_raises(flask, body) THEN ServerError("request.json", 0)
  ELSE IF Falsy(request_json(body)) \/ ~HasJobs(request_json(body))
    THEN BadInput("Please provide jobs list")
  ELSE IF request_json(body).json # "object" THEN ServerError("AttributeError", 0)
  ELSE IF \/ request_json(body).fields["jobs"].json # "list"
          \/ request_json(body).fields["jobs"].items = <<>>
    THEN BadInput("jobs must be a non-empty list")
  ELSE BatchLoop(request_json(body).fields["jobs"].items, outcomes)

\* app.result
result_page(session) ==
  IF "last_analysis" \notin DOMAIN session \/ DOMAIN session["last_analysis"] = {}
    THEN Reply(302, [location |-> "/"], 0, <<>>)
  ELSE Reply(200, [template |-> "result.html", result |-> session["last_analysis"]], 0, <<>>)

\* the bodies sent to /api/analyze
LongText ==
  "We need a developer with experience in team project development. Good salary and benefits."
MailText == "Join our sales team today! Send your CV to hr@acme.com now."
JobInputs ==
  {Str(""), Str("   "), Str("short text"), Str("example.org/page"), Str("mail hr@acme.com"),
   Str("www.acme.com/jobs/1"), Str(" https://linkedin.com/jobs/1"), Str(LongText),
   Str(MailText), Null}
InputTypes == {Str("url"), Str(" text "), Str("auto"), Str("invalid"), Null}
AnalyzeBodies ==
  {NoBody, BlankBody, Json(Null), Json(Obj(NoKeys))}
    \cup {Json(Obj("job_input" :> job_input)) : job_input \in JobInputs}
    \cup {Json(Obj("input_type" :> input_type)) : input_type \in InputTypes}
    \cup {Json(Obj("job_input" :> job_input @@ "input_type" :> input_type)) :
            job_input \in JobInputs, input_type \in InputTypes}

\* the bodies sent to /api/analyze-batch
Jobs ==
  {Obj("input_type" :> Str("text")), Obj("job_input" :> Str("https://acme.com/jobs/1")),
   Obj("job_input" :> Str(" short text") @@ "input_type" :> Str("text")),
   Obj("job_input" :> Null), Str("short text")}
JobLists == {<<job>> : job \in Jobs} \cup {<<first, second>> : first \in Jobs, second \in Jobs}
BatchBodies ==
  {NoBody, BlankBody, Json(Null), Json(Obj(NoKeys)), Json(Obj("jobs" :> Null)),
   Json(Obj("jobs" :> Str(LongText))), Json(Obj("jobs" :> List(<<>>)))}
    \cup {Json(Obj("jobs" :> List(jobs))) : jobs \in JobLists}

\* the replies to these bodies, computed once
AnalyzeReplies ==
  [flask \in FlaskVersions |->
     [body \in AnalyzeBodies |->
        [outcome \in ScrapeOutcomes |-> analyze_job(flask, body, outcome)]]]
BatchReplies ==
  [flask \in FlaskVersions |->
     [body \in BatchBodies |->
        [outcomes \in [1..2 -> ScrapeOutcomes] |-> analyze_batch(flask, body, outcomes)]]]

InitHttp ==
  /\ http_flask \in FlaskVersions
  /\ http_analyzer = FALSE
  /\ http_session = [client \in Clients |-> NoKeys]
  /\ http_served = {}
  /\ http_last = <<>>
  /\ UnusedBesideHttp

\* the reply goes out, with the session cookie the handler left
Answer(client, route, body, reply) ==
  /\ http_last' = <<[client |-> client, route |-> route, body |-> body, reply |-> reply]>>
  /\ http_session' =
       IF reply.stored = <<>> THEN http_session
       ELSE [http_session EXCEPT ![client] = ("last_analysis" :> reply.stored[1]) @@ @]
  /\ http_served' =
       IF route = "/api/analyze" /\ reply.status = 200 THEN http_served \cup {client}
       ELSE http_served
  /\ http_analyzer' =
       (http_analyzer \/ (route # "/result" /\ ~request_json_raises(http_flask, body)))
  /\ UNCHANGED <<http_flask, varsBesideHttp>>

\* POST /api/analyze
PostAnalyze(client, body, outcome) ==
  Answer(client, "/api/analyze", body, AnalyzeReplies[http_flask][body][outcome])

\* POST /api/analyze-batch
PostAnalyzeBatch(client, body, outcomes) ==
  Answer(client, "/api/analyze-batch", body, BatchReplies[http_flask][body][outcomes])

\* GET /result
GetResult(client) == Answer(client, "/result", NoBody, result_page(http_session[client]))

NextHttp ==
  \E client \in Clients :
    \/ \E body \in AnalyzeBodies, outcome \in ScrapeOutcomes : PostAnalyze(client, body, outcome)
    \/ \E body \in BatchBodies, outcomes \in [1..2 -> ScrapeOutcomes] :
         PostAnalyzeBatch(client, body, outcomes)
    \/ GetResult(client)

SpecHttp == InitHttp /\ [][NextHttp]_vars

\* ------------------------------------------------------------------------
\* utils.red_flags: categorize_severity and analyze_quality
\* ------------------------------------------------------------------------

\* score > threshold where the code has score >= threshold
SeverityAbove(score) ==
  IF score > 10 THEN "CRITICAL"
  ELSE IF score > 6 THEN "HIGH"
  ELSE IF score > 3 THEN "MEDIUM"
  ELSE IF score > 1 THEN "LOW"
  ELSE "NONE"

categorize_severity(score) ==
  IF score >= 10 THEN "CRITICAL"
  ELSE IF score >= 6 THEN "HIGH"
  ELSE IF score >= 3 THEN "MEDIUM"
  ELSE IF score >= 1 THEN "LOW"
  ELSE "NONE"

\* the patterns of quality_indicators, in lower case; the texts are ASCII,
\* and the alternative for the rupee sign is left out
quality_patterns ==
  <<Cat(<<Lit("responsibilit"), Alt(<<Lit("y"), Lit("ies")>>)>>),
    Alt(<<Cat(<<Lit("qualification"), Opt(Lit("s"))>>),
          Cat(<<Lit("requirement"), Opt(Lit("s"))>>),
          Cat(<<Lit("skill"), Opt(Lit("s"))>>)>>),
    Alt(<<Cat(<<Lit("$"), Star(Ws), Plus(Dg)>>), Lit("salary"), Lit("compensation"),
          Lit("ctc"), Lit("package")>>),
    Alt(<<Cat(<<Lit("about"), Plus(Ws),
                Alt(<<Lit("us"), Cat(<<Lit("the"), Plus(Ws), Lit("company")>>)>>)>>),
          Lit("company"), Lit("organization")>>),
    Words(<<"location", "based", "office", "remote">>),
    Words(<<"benefit", "insurance", "health", "401k", "pto", "leave">>)>>

\* quality_score = sum(1 for v in quality_indicators.values() if v)
QualityIndicators(text) ==
  Cardinality({j \in 1..Len(quality_patterns) : FindAll2(quality_patterns[j], Lower(text)) > 0})
    + (IF Len(text) > 300 THEN 1 ELSE 0)
    + (IF CountIn(text, {"\n"}) > 5 THEN 1 ELSE 0)

\* lines 465-478, for the score of the text and its quality_score
QualityLevel(score, quality_score) ==
  IF score >= 10 THEN "FAKE - SCAM"
  ELSE IF score >= 6 THEN "SUSPICIOUS"
  ELSE IF score >= 3 THEN "Questionable"
  ELSE IF quality_score >= 6 THEN "High"
  ELSE IF quality_score >= 4 THEN "Medium"
  ELSE IF quality_score >= 2 THEN "Low"
  ELSE "Very Low"

analyze_quality(text) == QualityLevel(count_red_flags(text).total_score, QualityIndicators(text))

\* the texts handed to analyze_quality: a beginning and an ending
LongPosting ==
  "Our office is in Pune. we build things with a team of people in a good place every day for all. we build things with a team of people in a good place every day for all. we build things with a team of people in a good place every day for all. we build things with a team of people in a good place every day for all."
QualityBeginnings ==
  {"", "responsibility skills", "responsibilities skills salary company",
   "about  us: requirements, ctc, remote",
   "responsibility skills salary company location benefits",
   "a\nb\nc\nd\ne\nf\ng pay $ 500"}
QualityEndings == {"", " HELLO THERE", " telegram", " whatsapp only", " urgent act now"}
QualityTexts ==
  {beginning \o ending : beginning \in QualityBeginnings, ending \in QualityEndings}
    \cup {LongPosting}

\* the scores handed to categorize_severity
MaxSeverityScore == 12

\* what the two functions return for every text, computed once
QualityReports ==
  [text \in QualityTexts |->
     [score    |-> count_red_flags(text).total_score,
      severity |-> categorize_severity(count_red_flags(text).total_score),
      quality_score |-> QualityIndicators(text),
      quality  |-> analyze_quality(text)]]

InitQuality ==
  /\ quality_text \in QualityTexts
  /\ quality_report = <<>>
  /\ UnusedBesideQuality

\* categorize_severity(score)
CategorizeSeverity(score) ==
  /\ quality_report' = <<[score |-> score, severity |-> categorize_severity(score)]>>
  /\ UNCHANGED <<quality_text, varsBesideQuality>>

\* score, flags = count_red_flags(text); analyze_quality(text)
AnalyzeQuality ==
  /\ quality_report' = <<QualityReports[quality_text]>>
  /\ UNCHANGED <<quality_text, varsBesideQuality>>

NextQuality ==
  \/ \E score \in 0..MaxSeverityScore : CategorizeSeverity(score)
  \/ AnalyzeQuality

SpecQuality == InitQuality /\ [][NextQuality]_vars

\* ------------------------------------------------------------------------
\* utils.domain_check: is_suspicious_domain and check_domain_reputation
\* ------------------------------------------------------------------------

\* suspicious_tlds of is_suspicious_domain
check_suspicious_tlds ==
  <<".xyz", ".top", ".work", ".click", ".link", ".club", ".date", ".racing", ".science",
    ".gq", ".ml", ".tk", ".cf", ".ga", ".buzz", ".info">>

lookalikes ==
  <<<<"gooogle", "google">>, <<"googel", "google">>, <<"amaz0n", "amazon">>,
    <<"microsft", "microsoft">>, <<"micros0ft", "microsoft">>, <<"appple", "apple">>,
    <<"faceb00k", "facebook">>, <<"linkdin", "linkedin">>, <<"linkedln", "linkedin">>>>

\* the first entry of a list that holds for the domain
FirstOf(n, Holds(_)) == CHOOSE j \in 1..n : Holds(j) /\ \A k \in 1..(j - 1) : ~Holds(k)

\* domain.split('.'): where the dots are, and the last two parts
DotPositions(domain) == {i \in 1..Len(domain) : CharAt(domain, i) = "."}
LastDot(domain) == CHOOSE i \in DotPositions(domain) : \A j \in DotPositions(domain) : j <= i
TopLabel(domain) == SubSeq(domain, LastDot(domain) + 1, Len(domain))
SecondLabel(domain) ==
  SubSeq(domain,
         IF \E i \in DotPositions(domain) : i < LastDot(domain)
           THEN 1 + CHOOSE i \in DotPositions(domain) :
                      /\ i < LastDot(domain)
                      /\ \A j \in DotPositions(domain) : j < LastDot(domain) => j <= i
           ELSE 1,
         LastDot(domain) - 1)

\* not domain or domain == "Not available"
NoDomain(domain) == domain \in {"", "Not available"}

\* domain.endswith(tld) for a tld of the list
HasSuspiciousTld(domain) ==
  \E j \in 1..Len(check_suspicious_tlds) : EndsWith(domain, check_suspicious_tlds[j])

\* len(parts) > 4
ExcessiveSubdomains(domain) == Cardinality(DotPositions(domain)) + 1 > 4

\* domain.split('.')[-2] raises IndexError
NoSecondLabel(domain) == DotPositions(domain) = {}

\* re.match(r'^[a-zA-Z0-9]+\.[a-zA-Z]{2,}$', second + '.' + top): $ also
\* matches before a newline that ends the string
PlainName(second, top) ==
  /\ second # ""
  /\ \A i \in 1..Len(second) : CharAt(second, i) \in UpperSet \cup LowerSet \cup DigitChars
  /\ LET letters == IF EndsWith(top, "\n") THEN SubSeq(top, 1, Len(top) - 1) ELSE top
     IN /\ Len(letters) >= 2
        /\ \A i \in 1..Len(letters) : CharAt(letters, i) \in UpperSet \cup LowerSet

\* lines 56-59, for a domain with a dot
NumberPattern(domain) ==
  /\ CountIn(SecondLabel(domain), DigitChars) > 0
  /\ ~PlainName(SecondLabel(domain), TopLabel(domain))

\* domain.count('-') > 2
MultipleHyphens(domain) == CountIn(domain, {"-"}) > 2

\* fake in domain_lower for a fake of lookalikes
IsLookalike(domain) == \E j \in 1..Len(lookalikes) : Contains(Lower(domain), lookalikes[j][1])

\* what is_suspicious_domain comes to: a verdict with its reason, or an
\* exception
Verdict(suspicious, reason) == [raises |-> FALSE, suspicious |-> suspicious, reason |-> reason]
IndexError == [raises |-> TRUE]

TldReason(domain) ==
  "Suspicious TLD: "
    \o check_suspicious_tlds[FirstOf(Len(check_suspicious_tlds),
                               LAMBDA j : EndsWith(domain, check_suspicious_tlds[j]))]
LookalikeReason(domain) ==
  LET j == FirstOf(Len(lookalikes), LAMBDA k : Contains(Lower(domain), lookalikes[k][1]))
  IN "Possible lookalike domain (fake " \o lookalikes[j][1] \o ", real "
       \o lookalikes[j][2] \o ")"

is_suspicious_domain(domain) ==
  IF NoDomain(domain) THEN Verdict(TRUE, "No valid domain found")
  ELSE IF HasSuspiciousTld(domain) THEN Verdict(TRUE, TldReason(domain))
  ELSE IF ExcessiveSubdomains(domain) THEN Verdict(TRUE, "Excessive subdomains")
  ELSE IF NoSecondLabel(domain) THEN IndexError
  ELSE IF NumberPattern(domain) THEN Verdict(TRUE, "Suspicious number pattern in domain")
  ELSE IF MultipleHyphens(domain) THEN Verdict(TRUE, "Multiple hyphens in domain")
  ELSE IF IsLookalike(domain) THEN Verdict(TRUE, LookalikeReason(domain))
  ELSE Verdict(FALSE, "Domain appears legitimate")

\* what whois.whois(domain) comes to: an exception, a record without a
\* creation date, or one whose creation date (the first of a list) is a
\* string that does not parse, a date strptime parses or a datetime of so
\* many days ago, or a datetime with a time zone, whose difference from
\* datetime.now() raises TypeError
AgeDays == {0 - 1, 0, 29, 30, 89, 90, 179, 180, 364, 365, 4000}
Lookups ==
  {[whois |-> "raises"], [whois |-> "no creation date"], [whois |-> "unparsable string"],
   [whois |-> "time zone"]}
    \cup {[whois |-> "date", age_days |-> age_days] : age_days \in AgeDays}

\* an age, and the absence of one
AgeInfo(age_days) == <<[age_days |-> age_days]>>
None == <<>>

\* get_domain_age without its try: the exception of the lookup gets out
AgeUnguarded(domain, lookup) ==
  IF NoDomain(domain) THEN [raises |-> FALSE, age_info |-> None]
  ELSE IF lookup.whois \in {"raises", "time zone"} THEN [raises |-> TRUE, age_info |-> None]
  ELSE IF lookup.whois = "date" THEN [raises |-> FALSE, age_info |-> AgeInfo(lookup.age_days)]
  ELSE [raises |-> FALSE, age_info |-> None]

get_domain_age(domain, lookup) ==
  IF NoDomain(domain) THEN [raises |-> FALSE, age_info |-> None]
  ELSE IF lookup.whois = "date" THEN [raises |-> FALSE, age_info |-> AgeInfo(lookup.age_days)]
  ELSE [raises |-> FALSE, age_info |-> None]

\* lines 129-158
ReputationOfAge(age_days) ==
  IF age_days < 30 THEN [reputation_score |-> 20, trust_level |-> "VERY_LOW"]
  ELSE IF age_days < 90 THEN [reputation_score |-> 40, trust_level |-> "LOW"]
  ELSE IF age_days < 180 THEN [reputation_score |-> 60, trust_level |-> "MEDIUM"]
  ELSE IF age_days < 365 THEN [reputation_score |-> 75, trust_level |-> "GOOD"]
  ELSE [reputation_score |-> 90, trust_level |-> "HIGH"]

\* lines 120-127 and the return, for what get_domain_age came to
ReputationOf(age) ==
  IF age.raises THEN [raises |-> TRUE]
  ELSE IF age.age_info = None
    THEN [raises |-> FALSE, reputation_score |-> 50, trust_level |-> "UNKNOWN",
          reason |-> "Could not verify domain age"]
  ELSE [raises |-> FALSE, age_info |-> age.age_info[1]]
         @@ ReputationOfAge(age.age_info[1].age_days)

check_domain_reputation(domain, lookup) == ReputationOf(get_domain_age(domain, lookup))

\* the domains handed over
DomainNames ==
  {"", "Not available", "acme.com", "gooogle-jobs.tk", "gooogle.com", "GOOOGLE.COM",
   "a.b.c.d.com", "a.b.c.d.tk", "acme123.com", "acme-1.com", "123.45", "a-b-c-d.com",
   "a-b-c-gooogle.com", "my-1-2-3.com", "ACME.TK", "acme.info", "gooogle", "localhost",
   "a-b-c-d", "http://acme.com", "https://amaz0n.com", "linkdin.co.in"}

InitDomain ==
  /\ domain_name \in DomainNames
  /\ domain_lookup \in Lookups
  /\ domain_report = <<>>
  /\ UnusedBesideDomain

\* is_suspicious_domain(domain)
IsSuspiciousDomain ==
  /\ domain_report' = <<[call |-> "is_suspicious_domain"] @@ is_suspicious_domain(domain_name)>>
  /\ UNCHANGED <<domain_name, domain_lookup, varsBesideDomain>>

\* check_domain_reputation(domain)
CheckDomainReputation ==
  /\ domain_report' =
       <<[call |-> "check_domain_reputation"]
           @@ check_domain_reputation(domain_name, domain_lookup)>>
  /\ UNCHANGED <<domain_name, domain_lookup, varsBesideDomain>>

NextDomain == IsSuspiciousDomain \/ CheckDomainReputation

SpecDomain == InitDomain /\ [][NextDomain]_vars

\* ------------------------------------------------------------------------
\* Scanning texts: count_red_flags applied to texts built from fragments
\* ------------------------------------------------------------------------

\* the pieces the scanned texts are made of
Fragments ==
  <<"bitcoin", "BITcoin", "from bed no boss", "from bed only">>

\* the longest scanned text, in fragments
MaxFragments == 3

\* the text of a sequence of fragment numbers: the fragments joined by spaces
RECURSIVE JoinFragments(_)
JoinFragments(fs) ==
  IF fs = <<>> THEN ""
  ELSE IF Len(fs) = 1 THEN Fragments[fs[1]]
  ELSE Fragments[fs[1]] \o " " \o JoinFragments(Tail(fs))

FragmentSeqs == UNION {[1..k -> 1..Len(Fragments)] : k \in 0..MaxFragments}

\* the scan of every text, computed once: the (total_score, unique_flags)
\* pair count_red_flags returns and found_flags, its list before line 398
ScannedTexts == {JoinFragments(fs) : fs \in FragmentSeqs}
ScanRecord(text, scan) ==
  [text        |-> text,
   found_flags |-> scan.found_flags,
   returned    |-> Returned(scan)]
Scans == [text \in ScannedTexts |-> ScanRecord(text, ScanText(text))]

InsertAt(fs, k, f) == SubSeq(fs, 1, k) \o <<f>> \o SubSeq(fs, k + 1, Len(fs))

IsCriticalPhrase(phrase) ==
  \E e \in 1..Len(critical_flags) : critical_flags[e][1] = phrase

InitScan ==
  /\ scan_frags = <<>>
  /\ scan_result = Scans[""]
  /\ scan_prev = Scans[""]
  /\ scan_op = "start"
  /\ UnusedBesideScan

\* the text grows by fragment f after its first k fragments
Insert(k, f, op) ==
  /\ Len(scan_frags) < MaxFragments
  /\ scan_frags' = InsertAt(scan_frags, k, f)
  /\ scan_prev' = scan_result
  /\ scan_result' = Scans[JoinFragments(scan_frags')]
  /\ scan_op' = op
  /\ UNCHANGED varsBesideScan

\* one more occurrence of a critical-tier phrase the text already contains
AlreadyThere(f) ==
  /\ IsCriticalPhrase(Fragments[f])
  /\ Contains(Lower(scan_result.text), Fragments[f])

InsertCriticalPhrase(k, f) ==
  /\ AlreadyThere(f)
  /\ Insert(k, f, "insert_critical")

\* any other growth of the text
InsertFragment(k, f) ==
  /\ ~AlreadyThere(f)
  /\ Insert(k, f, "insert_other")

NextScan ==
  \E k \in 0..Len(scan_frags), f \in 1..Len(Fragments) :
    \/ InsertCriticalPhrase(k, f)
    \/ InsertFragment(k, f)

SpecScan == InitScan /\ [][NextScan]_vars

\* C4: inserting one more occurrence of a critical-tier phrase that the text
\* already contains never lowers the total_score count_red_flags returns.
C4_InsertionNeverLowersScore ==
  scan_op = "insert_critical" =>
    scan_result.returned.total_score >= scan_prev.returned.total_score

\* the labels count_red_flags returns, and the weights contributed to a label
Labels(flags) == {flags[j][1] : j \in 1..Len(flags)}
Contributed(found_flags, label) ==
  {found_flags[j][2] : j \in {m \in 1..Len(found_flags) : found_flags[m][1] = label}}
Greatest(S) == CHOOSE m \in S : \A n \in S : n <= m

\* C5: the findings count_red_flags returns hold every contributed label once,
\* with the greatest of the weights contributed to it.
C5_OneFindingPerLabelWithMaxWeight ==
  LET unique == scan_result.returned.unique_flags
      found  == scan_result.found_flags
  IN /\ \A j, m \in 1..Len(unique) : unique[j][1] = unique[m][1] => j = m
     /\ Labels(unique) = Labels(found)
     /\ \A j \in 1..Len(unique) :
          unique[j][2] = Greatest(Contributed(found, unique[j][1]))

\* C5 witness: a label contributed twice with different weights was returned
C5_Witness ==
  \E label \in Labels(scan_result.found_flags) :
    Cardinality(Contributed(scan_result.found_flags, label)) > 1

\* ------------------------------------------------------------------------
\* count_red_flags on one text (utils/red_flags.py)
\* ------------------------------------------------------------------------

\* the texts handed to count_red_flags: a body and an ending
FlagBodies ==
  {"", "from bed only", "From Bed ONLY", "FROM BED ONLY",
   "from bed only from car only", "FROM BED ONLY FROM CAR ONLY",
   "from bed no boss", "from bed no boss from bed only",
   "from bed only in car only from cafe only",
   "initial investment", "initial investment initial investment",
   "skills", "BITCOIN", "Skills And Perks"}
FlagEndings == {"", " today", " you know", " URGENT"}
FlagTexts == {body \o ending : body \in FlagBodies, ending \in FlagEndings}

InitFlags ==
  /\ flags_text \in FlagTexts
  /\ flags_scan = <<>>
  /\ UnusedBesideFlags

\* total_score, unique_flags = count_red_flags(text), with found_flags as it
\* is before line 398
CountFlags ==
  /\ flags_scan = <<>>
  /\ flags_scan' = <<ScanRecord(flags_text, ScanText(flags_text))>>
  /\ UNCHANGED <<flags_text, varsBesideFlags>>

NextFlags == CountFlags

SpecFlags == InitFlags /\ [][NextFlags]_vars

\* ------------------------------------------------------------------------
\* _assess_severity on finding lists that grow and confidences that rise
\* ------------------------------------------------------------------------

\* the labels a finding can carry, and the longest finding list
FindingLabels ==
  {"suspicious_email", "spam_phrase", "unrealistic_salary", "missing_requirements"}
MaxFindings == 5

\* the confidences, in millionths: the thresholds and their neighbours
Confidences ==
  {0, 50 * Cent, 60 * Cent, 60 * Cent + 1, 80 * Cent, 80 * Cent + 1, Scale}

InitSeverity ==
  /\ sev_red_flags = <<>>
  /\ sev_score \in Confidences
  /\ sev_returned = <<>>
  /\ UnusedBesideSeverity

\* red_flags_severity = self._assess_severity(red_flags, combined_score)
AssessSeverity ==
  /\ sev_returned = <<>>
  /\ sev_returned' = <<_assess_severity(sev_red_flags, sev_score)>>
  /\ UNCHANGED <<sev_red_flags, sev_score, varsBesideSeverity>>

\* the same call with one more finding, after the first k findings
AssessWithFinding(k, label) ==
  /\ sev_returned # <<>>
  /\ Len(sev_red_flags) < MaxFindings
  /\ sev_red_flags' = InsertAt(sev_red_flags, k, label)
  /\ sev_returned' = <<_assess_severity(sev_red_flags', sev_score)>>
  /\ UNCHANGED <<sev_score, varsBesideSeverity>>

\* the same call with a higher confidence
AssessWithHigherConfidence(combined_score) ==
  /\ sev_returned # <<>>
  /\ combined_score > sev_score
  /\ sev_score' = combined_score
  /\ sev_returned' = <<_assess_severity(sev_red_flags, sev_score')>>
  /\ UNCHANGED <<sev_red_flags, varsBesideSeverity>>

NextSeverity ==
  \/ AssessSeverity
  \/ \E k \in 0..Len(sev_red_flags), label \in FindingLabels : AssessWithFinding(k, label)
  \/ \E combined_score \in Confidences : AssessWithHigherConfidence(combined_score)

SpecSeverity == InitSeverity /\ [][NextSeverity]_vars

\* ------------------------------------------------------------------------
\* extract_domain_features on one domain (src/feature_extractor.py)
\* ------------------------------------------------------------------------

\* the domains handed to extract_domain_features: a first label and a tail
DomainLabels ==
  {"", "ab", "acme", "12", "123", "test", "Gmail", "mailinator",
   "10minutemail", "GuerrillaMail"}
DomainTails == {"", ".com", ".net", ".tk", ".XYZ", ".45"}
CompanyDomains == {label \o tail : label \in DomainLabels, tail \in DomainTails}
CompanyNames == {"", "Acme Corp"}

InitSuspicious ==
  /\ sus_domain \in CompanyDomains
  /\ sus_name \in CompanyNames
  /\ sus_features = <<>>
  /\ UnusedBesideSuspicious

\* features = extract_domain_features(company_domain, company_name)
ExtractDomainFeatures ==
  /\ sus_features = <<>>
  /\ sus_features' = <<extract_domain_features(sus_domain, sus_name)>>
  /\ UNCHANGED <<sus_domain, sus_name, varsBesideSuspicious>>

NextSuspicious == ExtractDomainFeatures

SpecSuspicious == InitSuspicious /\ [][NextSuspicious]_vars

\* ------------------------------------------------------------------------
\* utils.domain_check: verify_company_legitimacy
\* ------------------------------------------------------------------------

\* s.replace(old, '')
RECURSIVE Removed(_, _)
Removed(s, old) ==
  IF Len(s) < Len(old) THEN s
  ELSE IF SubSeq(s, 1, Len(old)) = old THEN Removed(SubSeq(s, Len(old) + 1, Len(s)), old)
  ELSE CharAt(s, 1) \o Removed(SubSeq(s, 2, Len(s)), old)

\* company_name.lower().replace(' ', '')
CompanyLower(company_name) == Removed(Lower(company_name), " ")

\* domain.lower().replace('www.', '').replace('https://', '')
\*   .replace('http://', '').split('.')[0]
DomainLower(domain) ==
  LET bare == Removed(Removed(Removed(Lower(domain), "www."), "https://"), "http://")
  IN SubSeq(bare, 1, FirstIn(bare, 1, {"."}) - 1)

common_words ==
  <<"inc", "corp", "llc", "ltd", "co", "company", "group", "solutions", "tech", "systems">>

\* lines 167-180: what the company name adds to the score, and its indicator
NameMatch(company_name, domain) ==
  IF company_name = "" \/ NoDomain(domain) THEN [points |-> 0, indicators |-> <<>>]
  ELSE IF \/ Contains(DomainLower(domain), CompanyLower(company_name))
          \/ Contains(CompanyLower(company_name), DomainLower(domain))
    THEN [points |-> 20, indicators |-> <<"Company name matches domain">>]
  ELSE IF AnyPresent(common_words, CompanyLower(company_name))
    THEN [points |-> 10, indicators |-> <<"Company name contains common business words">>]
  ELSE [points |-> 0, indicators |-> <<>>]

\* the reason check_domain_reputation gives for a young domain
YoungReason(trust_level) ==
  IF trust_level = "VERY_LOW" THEN "Domain created less than 30 days ago"
  ELSE "Domain less than 3 months old"

\* lines 183-190: what the reputation of the domain adds, and its indicator
ReputationPart(domain, lookup) ==
  IF NoDomain(domain) THEN [points |-> 0, indicators |-> <<>>]
  ELSE LET reputation == check_domain_reputation(domain, lookup)
       IN [points     |-> reputation.reputation_score - 50,
           indicators |->
             IF reputation.trust_level \in {"HIGH", "GOOD"}
               THEN <<"Domain trust level: " \o reputation.trust_level>>
             ELSE IF reputation.trust_level \in {"VERY_LOW", "LOW"}
               THEN <<"Warning: " \o YoungReason(reputation.trust_level)>>
             ELSE <<>>]

\* score = max(0, min(100, score))
CapScore(score) == IF score < 0 THEN 0 ELSE IF score > 100 THEN 100 ELSE score

\* the legitimacy level when a score of 20 counts as the lowest tier
LevelAboveTwenty(score) ==
  IF score >= 80 THEN "VERIFIED"
  ELSE IF score >= 60 THEN "LIKELY_LEGITIMATE"
  ELSE IF score >= 40 THEN "UNCERTAIN"
  ELSE IF score > 20 THEN "SUSPICIOUS"
  ELSE "LIKELY_FAKE"

\* lines 195-205
LegitimacyLevel(score) ==
  IF score >= 80 THEN "VERIFIED"
  ELSE IF score >= 60 THEN "LIKELY_LEGITIMATE"
  ELSE IF score >= 40 THEN "UNCERTAIN"
  ELSE IF score >= 20 THEN "SUSPICIOUS"
  ELSE "LIKELY_FAKE"

verify_company_legitimacy(company_name, domain, lookup) ==
  LET name_match == NameMatch(company_name, domain)
      reputation == ReputationPart(domain, lookup)
      score      == CapScore(50 + name_match.points + reputation.points)
  IN [score            |-> score,
      legitimacy_level |-> LegitimacyLevel(score),
      indicators       |-> name_match.indicators \o reputation.indicators,
      domain           |-> domain,
      company          |-> company_name]

\* the company names and the domains handed over
LegitNames == {"", "Acme", "ACME Jobs", "Zeta Corp", "Nova Systems Ltd", "Quill"}
LegitDomains ==
  {"", "Not available", "acme.com", "www.acme-jobs.tk", "https://www.Acme.com",
   "zeta.org", ".com", "ac.me"}

InitLegitimacy ==
  /\ legit_company \in LegitNames
  /\ legit_domain \in LegitDomains
  /\ legit_lookup \in Lookups
  /\ legit_report = <<>>
  /\ UnusedBesideLegitimacy

\* verify_company_legitimacy(company_name, domain)
VerifyCompanyLegitimacy ==
  /\ legit_report = <<>>
  /\ legit_report' = <<verify_company_legitimacy(legit_company, legit_domain, legit_lookup)>>
  /\ UNCHANGED <<legit_company, legit_domain, legit_lookup, varsBesideLegitimacy>>

NextLegitimacy == VerifyCompanyLegitimacy

SpecLegitimacy == InitLegitimacy /\ [][NextLegitimacy]_vars

\* ------------------------------------------------------------------------
\* Properties
\* ------------------------------------------------------------------------

Range(seq) == {seq[j] : j \in 1..Len(seq)}

\* the requests served with a success result
ServedWell == {j \in 1..Len(scored) : scored[j].result.success}

\* C1: an assessment's verdict is Fake (final_prediction "FAKE JOB", is_fake
\* true) exactly when the confidence _fast_prediction computed is strictly
\* greater than 0.5; at 0.5 it is Genuine, and final_prediction and is_fake
\* never disagree.
C1_FakeIffConfidenceAboveHalf ==
  pred_result # <<>> =>
    /\ pred_result[1].is_fake
         <=> (_fast_prediction(pred_features, pred_flags) > 50 * Cent)
    /\ pred_result[1].final_prediction \in {"FAKE JOB", "GENUINE JOB"}
    /\ (pred_result[1].final_prediction = "FAKE JOB") <=> pred_result[1].is_fake

\* an assessment whose confidence is exactly 0.5
C1_ConfidenceExactlyHalf ==
  /\ pred_result # <<>>
  /\ _fast_prediction(pred_features, pred_flags) = 50 * Cent
  /\ pred_result[1].final_prediction = "GENUINE JOB"

\* C2: for every feature set and finding list the confidence of
\* _fast_prediction lies in [0, 1], ai_confidence and combined_confidence are
\* both 100 times that confidence and lie in [0, 100], and the quality score
\* that is mapped to a grade lies in [0, 100].
C2_ScoresWithinTheirRanges ==
  /\ pred_result # <<>> =>
       /\ 0 <= _fast_prediction(pred_features, pred_flags)
       /\ _fast_prediction(pred_features, pred_flags) <= Scale
       /\ pred_result[1].ai_confidence
            = 100 * _fast_prediction(pred_features, pred_flags)
       /\ pred_result[1].combined_confidence
            = 100 * _fast_prediction(pred_features, pred_flags)
       /\ 0 <= pred_result[1].ai_confidence
       /\ pred_result[1].ai_confidence <= 100 * Scale
  /\ pred_quality # <<>> =>
       /\ 0 <= pred_quality[1].quality_score
       /\ pred_quality[1].quality_score <= 100 * Scale

\* a feature set graded whose sum was below 0 before the clamp, and whose
\* quality points were above 100
C2_BothClampsActed ==
  /\ pred_quality # <<>>
  /\ RawScore(pred_features, pred_flags) < 0
  /\ pred_result[1].ai_confidence = 0
  /\ QualityPoints(pred_result[1], pred_features) > 100 * Scale
  /\ pred_quality[1].quality_score = 100 * Scale

\* C3: two requests for the same posting are given identical assessments,
\* whatever was scored in between.
C3_SamePostingSameAssessment ==
  \A i, j \in 1..Len(scored) :
    scored[i].posting = scored[j].posting => scored[i].result = scored[j].result

\* a posting with findings scored twice, another posting scored in between
C3_ScoredTwiceWithAnotherBetween ==
  /\ Len(scored) = 3
  /\ ServedWell = {1, 2, 3}
  /\ scored[1].posting = scored[3].posting
  /\ scored[2].posting # scored[1].posting
  /\ scored[1].result.red_flags_list # <<>>

\* C6: a posting whose fields are each absent or a string is scored without
\* an exception: the result has success true and no error.
C6_StringPostingsAreScored ==
  /\ \A w \in Workers :
       frames[w].posting # "none" => frames[w].pc # "except"
  /\ \A j \in 1..Len(scored) :
       scored[j].posting # "none" =>
         /\ scored[j].result.success
         /\ scored[j].result.error = "None"

\* the posting with no field at all, and the one with empty fields, scored
C6_AbsentAndEmptyScored ==
  /\ \E j \in ServedWell : scored[j].posting = "absent"
  /\ \E j \in ServedWell : scored[j].posting = "empty"

\* C7: the posting with an empty description and an empty company domain is
\* scored without an error, its findings include "vague_description", and
\* its confidence is at most 0.5.
C7_EmptyPostingIsVague ==
  \A j \in 1..Len(scored) :
    scored[j].posting = "empty" =>
      /\ scored[j].result.success
      /\ scored[j].result.combined_confidence <= 50 * Scale
      /\ "vague_description" \in Range(scored[j].result.red_flags_list)

\* how worker w's call stands against the posting scored alone, the
\* domain-analysis step left out
SameVerdict(result, alone) ==
  /\ result.success
  /\ result.final_prediction = alone.final_prediction
  /\ result.is_fake = alone.is_fake
  /\ result.ai_confidence = alone.ai_confidence
  /\ result.combined_confidence = alone.combined_confidence
  /\ result.red_flags_severity = alone.red_flags_severity
  /\ result.red_flags_list = alone.red_flags_list
  /\ result.red_flags_count = alone.red_flags_count

DomainStepFailed == {"analysis raised", "recording raised"}

\* C8: for a posting with a company domain, an exception in the
\* domain-analysis step (in the analysis or in recording it) never aborts the
\* call: the result has success true, and verdict, confidence, severity and
\* findings are those of the posting scored without that step.
C8_DomainFailureIsAbsorbed ==
  /\ \A w \in Workers :
       frames[w].domain_step \in DomainStepFailed => frames[w].pc # "except"
  /\ \A j \in 1..Len(scored) :
       scored[j].domain_step \in DomainStepFailed =>
         SameVerdict(scored[j].result,
                     Assessments[scored[j].posting][environment.library])

\* a call served after its analysis raised, and one after recording raised
C8_BothFailuresServed ==
  /\ \E j \in ServedWell : scored[j].domain_step = "analysis raised"
  /\ \E j \in ServedWell : scored[j].domain_step = "recording raised"

\* C9: calls that run at once do not interfere: in every interleaving each
\* call's result is the assessment of its posting scored alone.
C9_ConcurrentCallsDoNotInterfere ==
  /\ \A w \in Workers :
       frames[w].pc = "return" =>
         ValueOf(frames[w].result)
           = Assessments[frames[w].posting][environment.library]
  /\ \A j \in 1..Len(scored) :
       scored[j].posting # "none" =>
         scored[j].result = Assessments[scored[j].posting][environment.library]

\* two calls on the same JobAnalyzer about to return at once, their postings
\* and their findings different
C9_TwoCallsReturnAtOnce ==
  /\ \A w \in Workers : frames[w].pc = "return"
  /\ frames["w1"].self = frames["w2"].self
  /\ frames["w1"].posting # frames["w2"].posting
  /\ ValueOf(frames["w1"].red_flags) # ValueOf(frames["w2"].red_flags)

\* C10: a call leaves the caller's job_data as it was: during the call and
\* after it returned or raised, every key has the value it had and no key
\* was added or removed.
C10_JobDataUnchanged ==
  /\ \A w \in Workers :
       frames[w].job_data # Unbound =>
         ValueOf(frames[w].job_data) = Postings[frames[w].posting]
  /\ \A j \in 1..Len(scored) :
       scored[j].job_data # Unbound =>
         ValueOf(scored[j].job_data) = Postings[scored[j].posting]

\* the posting with no field and the one with every field, both returned
C10_SparseAndFullReturned ==
  /\ \E j \in ServedWell :
       scored[j].posting = "absent" /\ scored[j].job_data = Bound(NoKeys)
  /\ \E j \in ServedWell :
       scored[j].posting = "genuine" /\ scored[j].job_data # Unbound

\* ------------------------------------------------------------------------
\* Claims about the web application
\* ------------------------------------------------------------------------

\* the last request went to this route
LastWas(route) == http_last # <<>> /\ http_last[1].route = route

\* a JSON object whose job_input and input_type, where present, are strings
StringFields(value) ==
  /\ value.json = "object"
  /\ \A key \in DOMAIN value.fields \cap {"job_input", "input_type"} :
       value.fields[key].json = "string"

\* the body is missing or empty
MissingOrEmpty(body) == body.kind \in {"none", "blank"} \/ Falsy(body.value)

\* the job_input and the type the request asks for, and the type after
\* detection
AskedInput(body) == GetStrip(body.value, "job_input", "")
AskedType(body)  == GetStrip(body.value, "input_type", "auto")
ResolvedType(body) == Resolved(AskedInput(body), AskedType(body))

\* a request /api/analyze has to reject
Rejectable(body) ==
  \/ MissingOrEmpty(body)
  \/ /\ StringFields(body.value)
     /\ \/ AskedInput(body) = ""
        \/ AskedType(body) \notin {"url", "text", "auto"}
        \/ ResolvedType(body) = "text" /\ Len(AskedInput(body)) < 50
        \/ /\ ResolvedType(body) = "url"
           /\ ~StartsWith(AskedInput(body), "http://")
           /\ ~StartsWith(AskedInput(body), "https://")
           /\ ~StartsWith(AskedInput(body), "www.")

\* C12: /api/analyze answers 400 and runs no analysis for a request whose
\* body is missing or empty, whose job_input is empty or blank, whose
\* input_type is none of url, text and auto, whose text is shorter than 50
\* characters, or whose url starts with none of http://, https:// and www.
C12_BadRequestsAnswered400 ==
  LastWas("/api/analyze") /\ Rejectable(http_last[1].body) =>
    /\ http_last[1].reply.status = 400
    /\ http_last[1].reply.analyses = 0

\* the session's last_analysis changes only in the step that answers this
\* client's /api/analyze request with 200
WrittenOnlyOn200 ==
  \A client \in Clients :
    http_session'[client] # http_session[client] =>
      /\ http_last'[1].client = client
      /\ http_last'[1].route = "/api/analyze"
      /\ http_last'[1].reply.status = 200

\* a step that answers 400 or 500 leaves every session as it was
RejectionKeepsSession ==
  http_last'[1].reply.status \in {400, 500} => http_session' = http_session

\* GET /result redirects to the home page for a client /api/analyze has not
\* answered with 200
RedirectsUnlessServed ==
  /\ \A client \in Clients \ http_served :
       /\ result_page(http_session[client]).status = 302
       /\ result_page(http_session[client]).payload.location = "/"
  /\ LastWas("/result") /\ http_last[1].client \notin http_served =>
       http_last[1].reply.status = 302

JobsOf(body) == body.value.fields["jobs"].items
JobObjects(body) ==
  /\ body.kind = "json"
  /\ body.value.json = "object"
  /\ "jobs" \in DOMAIN body.value.fields
  /\ body.value.fields["jobs"].json = "list"
  /\ JobsOf(body) # <<>>
  /\ \A j \in 1..Len(JobsOf(body)) : StringFields(JobsOf(body)[j])

\* a JSON object without a jobs key, or with jobs that is not a non-empty
\* list
NoJobs(body) ==
  /\ body.kind = "json"
  /\ body.value.json = "object"
  /\ \/ "jobs" \notin DOMAIN body.value.fields
     \/ body.value.fields["jobs"].json # "list"
     \/ body.value.fields["jobs"].items = <<>>

\* entry j of the results is what job j comes to: the error entry for an
\* empty job_input, and otherwise an analysis of that job's input, failed
\* or not
EntryOfJob(entry, job) ==
  IF GetStrip(job, "job_input", "") = ""
    THEN entry = [error |-> "Empty job input", success |-> FALSE]
  ELSE IF GetStrip(job, "input_type", "url") = "url"
    THEN \E outcome \in ScrapeOutcomes :
           entry = analyze_from_url(GetStrip(job, "job_input", ""), outcome)
  ELSE entry = analyze_from_text(GetStrip(job, "job_input", ""))

SeverityRank(severity) ==
  CASE severity = "NONE" -> 0
    [] severity = "LOW" -> 1
    [] severity = "MEDIUM" -> 2
    [] severity = "HIGH" -> 3
    [] severity = "CRITICAL" -> 4

\* the severity of a score, by its range
SeverityOfRange(score) ==
  CASE score < 1 -> "NONE"
    [] score \in 1..2 -> "LOW"
    [] score \in 3..5 -> "MEDIUM"
    [] score \in 6..9 -> "HIGH"
    [] score >= 10 -> "CRITICAL"

\* the quality level of a number of quality indicators
LevelOfIndicators(quality_score) ==
  IF quality_score >= 6 THEN "High"
  ELSE IF quality_score >= 4 THEN "Medium"
  ELSE IF quality_score >= 2 THEN "Low"
  ELSE "Very Low"

\* C15: categorize_severity maps every score to NONE (below 1), LOW (1-2),
\* MEDIUM (3-5), HIGH (6-9) or CRITICAL (10 and more), and never to a lower
\* severity for a higher score; analyze_quality returns FAKE - SCAM,
\* SUSPICIOUS or Questionable exactly when the text's score is CRITICAL,
\* HIGH or MEDIUM, and otherwise High, Medium, Low or Very Low by the number
\* of quality indicators (6, 4, 2 and more, or fewer)
C15_QualityFollowsSeverity ==
  /\ \A low \in 0..MaxSeverityScore, high \in 0..MaxSeverityScore :
       low <= high =>
         SeverityRank(categorize_severity(low)) <= SeverityRank(categorize_severity(high))
  /\ quality_report # <<>> =>
       /\ quality_report[1].severity = SeverityOfRange(quality_report[1].score)
       /\ "quality" \in DOMAIN quality_report[1] =>
            /\ quality_report[1].quality = "FAKE - SCAM"
                 <=> quality_report[1].severity = "CRITICAL"
            /\ quality_report[1].quality = "SUSPICIOUS"
                 <=> quality_report[1].severity = "HIGH"
            /\ quality_report[1].quality = "Questionable"
                 <=> quality_report[1].severity = "MEDIUM"
            /\ quality_report[1].severity \in {"NONE", "LOW"} =>
                 quality_report[1].quality
                   = LevelOfIndicators(quality_report[1].quality_score)

\* a text of LOW severity was rated by its quality indicators
C15_LowSeverityRatedByIndicators ==
  /\ quality_report # <<>>
  /\ "quality" \in DOMAIN quality_report[1]
  /\ quality_report[1].score = 2
  /\ quality_report[1].quality = "Low"

\* ------------------------------------------------------------------------
\* Claims about utils.domain_check
\* ------------------------------------------------------------------------

\* the last call was this one
Reported(call) == domain_report # <<>> /\ domain_report[1].call = call

\* the number check matches: the part before the last has a digit and the
\* last two parts are not a plain name
NumberCheck(domain) == ~NoSecondLabel(domain) /\ NumberPattern(domain)

\* the reason of the first check that matches, in the order missing domain,
\* TLD, subdomains, numbers, hyphens, lookalike
FirstReason(domain) ==
  IF NoDomain(domain) THEN "No valid domain found"
  ELSE IF HasSuspiciousTld(domain) THEN TldReason(domain)
  ELSE IF ExcessiveSubdomains(domain) THEN "Excessive subdomains"
  ELSE IF NumberCheck(domain) THEN "Suspicious number pattern in domain"
  ELSE IF MultipleHyphens(domain) THEN "Multiple hyphens in domain"
  ELSE IF IsLookalike(domain) THEN LookalikeReason(domain)
  ELSE "Domain appears legitimate"

SomeCheckMatches(domain) ==
  \/ NoDomain(domain)
  \/ HasSuspiciousTld(domain)
  \/ ExcessiveSubdomains(domain)
  \/ NumberCheck(domain)
  \/ MultipleHyphens(domain)
  \/ IsLookalike(domain)

\* C16: when one of the checks of is_suspicious_domain matches (missing
\* domain, suspicious TLD, more than 4 parts, number pattern, more than 2
\* hyphens, lookalike brand) it returns suspicious = true with the reason of
\* the first one that matches, and it returns suspicious = false only when
\* none matches
C16_FirstMatchingCheckDecides ==
  Reported("is_suspicious_domain") =>
    /\ SomeCheckMatches(domain_name) =>
         /\ ~domain_report[1].raises
         /\ domain_report[1].suspicious
         /\ domain_report[1].reason = FirstReason(domain_name)
    /\ ~domain_report[1].raises /\ ~domain_report[1].suspicious =>
         ~SomeCheckMatches(domain_name)

\* the registration lookup gives an age for the domain
AgeKnown == ~NoDomain(domain_name) /\ domain_lookup.whois = "date"

\* the score and the trust level of an age, by its range
ReputationOfRange(age_days) ==
  CASE age_days < 30 -> <<20, "VERY_LOW">>
    [] age_days >= 30 /\ age_days < 90 -> <<40, "LOW">>
    [] age_days >= 90 /\ age_days < 180 -> <<60, "MEDIUM">>
    [] age_days >= 180 /\ age_days < 365 -> <<75, "GOOD">>
    [] age_days >= 365 -> <<90, "HIGH">>

\* C17: check_domain_reputation never raises; without an age from the
\* registration lookup (lookup error, no creation date, a date that does not
\* parse) it returns 50 and UNKNOWN, and otherwise 20/VERY_LOW below 30 days,
\* 40/LOW below 90, 60/MEDIUM below 180, 75/GOOD below 365 and 90/HIGH from
\* there on, so that an older domain never scores lower
C17_ReputationNeverRaises ==
  /\ \A younger \in AgeDays, older \in AgeDays :
       younger <= older =>
         ReputationOfAge(younger).reputation_score <= ReputationOfAge(older).reputation_score
  /\ Reported("check_domain_reputation") =>
       /\ ~domain_report[1].raises
       /\ <<domain_report[1].reputation_score, domain_report[1].trust_level>>
            = IF AgeKnown THEN ReputationOfRange(domain_lookup.age_days)
              ELSE <<50, "UNKNOWN">>

\* the lookup of a domain raised, and the reputation came back as unknown
C17_LookupErrorGivesUnknown ==
  /\ Reported("check_domain_reputation")
  /\ ~NoDomain(domain_name)
  /\ domain_lookup.whois = "raises"
  /\ ~domain_report[1].raises
  /\ domain_report[1].trust_level = "UNKNOWN"

\* ------------------------------------------------------------------------
\* Claims about count_red_flags on one text
\* ------------------------------------------------------------------------

\* count_red_flags has returned; what it was given, lowered and stripped
Counted == flags_scan # <<>>
FlagsLower == Lower(flags_text)
FlagsClean == StripPunctuation(FlagsLower)
WeightsOf(flags) == [j \in 1..Len(flags) |-> flags[j][2]]

\* trunc(w * m) for m = (1.5 if k > 1 else 1.0) * (1.3 if urgent else 1.0),
\* with m in ten-thousandths
Truncated(w, k, urgent) ==
  (w * (IF k > 1 THEN 150 ELSE 100) * (IF urgent THEN 130 ELSE 100)) \div 10000
UrgencyPresent ==
  \E word \in {"urgent", "immediate", "now", "today"} : Contains(FlagsClean, word)
MatchesOf(i) == FindAll2(pattern_flags[i].re, FlagsLower)
MatchingPatterns ==
  SelectSeq([i \in 1..Len(pattern_flags) |-> i], LAMBDA i : MatchesOf(i) > 0)
ExpectedOfPatterns(matching, urgent) ==
  [j \in 1..Len(matching) |->
     <<pattern_flags[matching[j]].description,
       Truncated(pattern_flags[matching[j]].weight, MatchesOf(matching[j]), urgent)>>]
OfLiterals ==
  LiteralHits(critical_flags, FlagsLower) \o LiteralHits(high_risk_flags, FlagsLower)
    \o LiteralHits(medium_risk_flags, FlagsLower)
OfHeuristics == Heuristics(EmptyScan, flags_text, FlagsLower, FlagsClean).found_flags

\* C18: between the contributions of the literal tiers and those of the
\* heuristics, count_red_flags records one contribution for every pattern
\* entry that matches (k >= 1 times) and none for any other; the contribution
\* of an entry of base weight w is trunc(w * m), m = (1.5 if k > 1 else 1.0) *
\* (1.3 if urgent, immediate, now or today is a substring of the
\* punctuation-stripped text, else 1.0), and total_score holds all of them.
C18_PatternContributesTruncatedWeight ==
  Counted =>
    /\ flags_scan[1].found_flags =
         OfLiterals \o ExpectedOfPatterns(MatchingPatterns, UrgencyPresent) \o OfHeuristics
    /\ flags_scan[1].returned.total_score = SumSeq(WeightsOf(flags_scan[1].found_flags))

\* C18 witness: a pattern entry that matches more than once in a text with an
\* urgency word, where the truncation cuts its weight, has been counted
C18_RepeatedUrgentPatternCounted ==
  /\ Counted
  /\ UrgencyPresent
  /\ \E i \in 1..Len(pattern_flags) :
       /\ MatchesOf(i) > 1
       /\ (pattern_flags[i].weight * 195) % 100 # 0
       /\ \E j \in 1..Len(flags_scan[1].found_flags) :
            flags_scan[1].found_flags[j] =
              <<pattern_flags[i].description, Truncated(pattern_flags[i].weight, 2, TRUE)>>

\* the uppercase characters of the text and the length their number is divided by
Uppercase == CountIn(flags_text, UpperSet)
Divisor == IF Len(flags_text) > 0 THEN Len(flags_text) ELSE 1
Recorded(finding) ==
  \E j \in 1..Len(flags_scan[1].found_flags) : flags_scan[1].found_flags[j] = finding
RecordedLabel(label) ==
  \E j \in 1..Len(flags_scan[1].found_flags) : flags_scan[1].found_flags[j][1] = label

\* C19: the capitalization heuristic of count_red_flags adds 3 with the ALL CAPS
\* finding when the uppercase ratio is greater than 0.5, adds 2 with the
\* excessive capitalization finding when it is greater than 0.3 (and at most
\* 0.5), and adds neither when the ratio is at most 0.3.
C19_CapsRatioDecidesFinding ==
  Counted =>
    /\ 10 * Uppercase > 5 * Divisor =>
         Recorded(<<"ALL CAPS TEXT (Strong SCAM indicator)", 3>>)
    /\ (10 * Uppercase > 3 * Divisor /\ 10 * Uppercase <= 5 * Divisor) =>
         Recorded(<<"Excessive capitalization (SCAM indicator)", 2>>)
    /\ 10 * Uppercase <= 3 * Divisor =>
         /\ ~RecordedLabel("ALL CAPS TEXT (Strong SCAM indicator)")
         /\ ~RecordedLabel("Excessive capitalization (SCAM indicator)")

\* a label that count_red_flags recorded more than once
RepeatedLabel ==
  \E j, m \in 1..Len(flags_scan[1].found_flags) :
    j # m /\ flags_scan[1].found_flags[j][1] = flags_scan[1].found_flags[m][1]

\* C20: the total_score count_red_flags returns is the sum of the weights of
\* all contributions recorded before the duplicates are removed; it is never
\* below the sum of the weights of the returned findings, and equals that sum
\* exactly when no label was contributed more than once.
C20_TotalIsSumOfContributions ==
  Counted =>
    /\ flags_scan[1].returned.total_score = SumSeq(WeightsOf(flags_scan[1].found_flags))
    /\ flags_scan[1].returned.total_score
         >= SumSeq(WeightsOf(flags_scan[1].returned.unique_flags))
    /\ (flags_scan[1].returned.total_score
          = SumSeq(WeightsOf(flags_scan[1].returned.unique_flags))) <=> ~RepeatedLabel

\* C20 witness: a label was contributed twice, and the total_score returned is
\* above the sum of the returned findings
C20_RepeatedLabelCountedTwice ==
  /\ Counted
  /\ RepeatedLabel
  /\ flags_scan[1].returned.total_score
       > SumSeq(WeightsOf(flags_scan[1].returned.unique_flags))

\* ------------------------------------------------------------------------
\* Claims about the prediction and the quality grade
\* ------------------------------------------------------------------------

\* the deduction for the length of the text: 0.12 above 1000 characters,
\* 0.08 above 600 and up to 1000, nothing otherwise
StatedLengthDeduction(text_length) ==
  IF text_length > 1000 THEN 12 * Cent
  ELSE IF text_length > 600 THEN 8 * Cent
  ELSE 0

\* C21: the confidence _fast_prediction returns is the clamped sum of its
\* other terms less one deduction for the text length: 0.12 when text_length >
\* 1000, 0.08 when 600 < text_length <= 1000, and 0 otherwise.
C21_LengthDeductionByBand ==
  pred_result # <<>> =>
    pred_result[1].combined_confidence =
      100 * ClampScore(RawScore(pred_features, pred_flags)
                         + LengthDeduction(pred_features.text_length)
                         - StatedLengthDeduction(pred_features.text_length))

\* the quality score before the damping, the damping, the clamp and the
\* bands as stated; scores in millionths of a point, confidence in millionths
\* of a percent
Graded == pred_quality # <<>>
Verdict24 == pred_result[1]
PreDamping == QualityPoints(pred_result[1], pred_features)
StatedDamping(fake, confidence, q) ==
  IF ~fake THEN q
  ELSE IF confidence > 80 * Scale
    THEN (IF 3 * q > 50 * Scale THEN (3 * q) \div 10 ELSE 5 * Scale)
  ELSE IF confidence > 60 * Scale
    THEN (IF 4 * q > 100 * Scale THEN (4 * q) \div 10 ELSE 10 * Scale)
  ELSE (IF 5 * q > 150 * Scale THEN (5 * q) \div 10 ELSE 15 * Scale)
StatedClamp(q) == IF q < 0 THEN 0 ELSE IF q > 100 * Scale THEN 100 * Scale ELSE q
Bands ==
  <<"SUSPICIOUS", "POOR", "VERY LOW", "LOW", "FAIR", "MODERATE", "GOOD", "HIGH",
    "VERY HIGH", "EXCELLENT">>
StatedBand(q) == Bands[IF q >= 90 * Scale THEN 10 ELSE q \div (10 * Scale) + 1]

\* C24: the quality score _assess_job_quality grades is the pre-damping score
\* q, replaced when the verdict is Fake by max(5, 0.3 q) for a confidence above
\* 80%, by max(10, 0.4 q) for a confidence above 60% and up to 80%, and by
\* max(15, 0.5 q) otherwise, left as it is when the verdict is Genuine, then
\* clamped to [0, 100]; the grade is the one band of the ten that the
\* thresholds 90, 80, ..., 10 give it; and a Fake assessment is graded
\* SUSPICIOUS only if its confidence exceeds 80%.
C24_DampedClampedAndBanded ==
  Graded =>
    /\ pred_quality[1].quality_score =
         StatedClamp(StatedDamping(Verdict24.is_fake, Verdict24.combined_confidence,
                                   PreDamping))
    /\ pred_quality[1].job_quality = StatedBand(pred_quality[1].quality_score)
    /\ (Verdict24.is_fake /\ pred_quality[1].job_quality = "SUSPICIOUS") =>
         Verdict24.combined_confidence > 80 * Scale

\* C24 witness: a Fake verdict with a confidence above 80% was graded
\* SUSPICIOUS, its quality damped below 10
C24_ConfidentFakeGradedSuspicious ==
  /\ Graded
  /\ Verdict24.is_fake
  /\ Verdict24.combined_confidence > 80 * Scale
  /\ PreDamping > 10 * Scale
  /\ pred_quality[1].job_quality = "SUSPICIOUS"

\* C28: when the verdict is Fake, the quality score _assess_job_quality grades
\* for the features and findings of that verdict is below 60: the grade is
\* never better than MODERATE.
C28_FakeNeverGradedAboveModerate ==
  (Graded /\ Verdict24.is_fake) =>
    /\ pred_quality[1].quality_score < 60 * Scale
    /\ pred_quality[1].job_quality \notin {"GOOD", "HIGH", "VERY HIGH", "EXCELLENT"}

\* ------------------------------------------------------------------------
\* Claims about the feature set _analyze_job_data scores
\* ------------------------------------------------------------------------

\* the feature set after count_red_flags ran and features were updated
FinalFeatures == feat_features[1]

\* C22: in the feature set _analyze_job_data scores, the combination analysis
\* is that of the finding labels count_red_flags returned: when the findings
\* include both "payment required" and "urgent hiring" the combination score
\* holds their 0.8 and the combination is listed, and suspicion_score is
\* min(1, red_flag_count * 0.1 + red_flag_combo_score * 0.05) for the
\* red_flag_count of that feature set.
C22_CombinationsOfScannedFindings ==
  feat_scan # <<>> =>
    /\ (InList("payment required", FinalFeatures.red_flags)
          /\ InList("urgent hiring", FinalFeatures.red_flags)) =>
         /\ FinalFeatures.red_flag_combo_score >= 8 * (Scale \div 10)
         /\ InList("Payment + Urgency: Classic scam pattern",
                   FinalFeatures.red_flag_combinations)
    /\ FinalFeatures.suspicion_score =
         Min(Scale, FinalFeatures.red_flag_count * (Scale \div 10)
                      + FinalFeatures.red_flag_combo_score \div 20)

\* ------------------------------------------------------------------------
\* Claims about _assess_severity
\* ------------------------------------------------------------------------

\* the severities in their order, and the severity as stated
SeverityOrder(severity) ==
  CASE severity = "Low" -> 1 [] severity = "Medium" -> 2 [] severity = "High" -> 3
StatedSeverity(red_flags, combined_score) ==
  IF (\E j \in 1..Len(red_flags) :
        red_flags[j] \in {"suspicious_email", "spam_phrase", "unrealistic_salary"})
       \/ combined_score > 80 * Cent
    THEN "High"
  ELSE IF Len(red_flags) > 3 \/ combined_score > 60 * Cent THEN "Medium"
  ELSE "Low"
SeverityAsStated ==
  sev_returned # <<>> => sev_returned[1] = StatedSeverity(sev_red_flags, sev_score)
SeverityNeverLowered ==
  sev_returned # <<>> => SeverityOrder(sev_returned'[1]) >= SeverityOrder(sev_returned[1])

\* C23: _assess_severity returns High if some finding is suspicious_email,
\* spam_phrase or unrealistic_salary or the confidence is above 0.8, otherwise
\* Medium if there are more than 3 findings or the confidence is above 0.6,
\* otherwise Low; and a call with one more finding or with a higher confidence
\* never returns a lower severity than the call before it.
C23_SeverityStatedAndMonotone ==
  /\ []SeverityAsStated
  /\ [][SeverityNeverLowered]_vars

\* C23 witness: four findings, none of them critical, at a confidence of at
\* most 0.6 were assessed Medium
C23_FourPlainFindingsAreMedium ==
  /\ sev_returned = <<"Medium">>
  /\ Len(sev_red_flags) = 4
  /\ sev_score <= 60 * Cent
  /\ \A j \in 1..4 : sev_red_flags[j] = "missing_requirements"


\* ------------------------------------------------------------------------
\* Claims about the domain features
\* ------------------------------------------------------------------------

DomainScored == sus_features # <<>>

\* the stated rules, in their order, on the lower-cased domain
StatedRuleValue(domain) ==
  LET d == Lower(domain)
      known_bad   == \E i \in 1..Len(high_risk_keywords) : Contains(d, high_risk_keywords[i])
      bad_ending  == \E i \in 1..Len(suspicious_tlds) : EndsWith(d, suspicious_tlds[i])
      disposable  == \E i \in 1..Len(low_risk_patterns) : Contains(d, low_risk_patterns[i])
      numeric     == NumbersOnlyLabel(d)
      short_label == FirstLabelLength(d) < 3
  IN CASE known_bad   -> Scale
       [] ~known_bad /\ bad_ending -> 8 * (Scale \div 10)
       [] ~known_bad /\ ~bad_ending /\ disposable -> 5 * (Scale \div 10)
       [] ~known_bad /\ ~bad_ending /\ ~disposable /\ numeric -> 7 * (Scale \div 10)
       [] ~known_bad /\ ~bad_ending /\ ~disposable /\ ~numeric /\ short_label
            -> 6 * (Scale \div 10)
       [] OTHER -> 0

DomainExistsWhenNonEmpty ==
  sus_features[1].domain_exists = (IF sus_domain # "" THEN 1 ELSE 0)

\* C25 as stated: for every domain, the empty one included,
\* has_suspicious_domain is the value of the first stated rule that matches
\* (0 when none does), and domain_exists is 1 exactly for a non-empty domain.
C25_RuleOrderForEveryDomain ==
  DomainScored =>
    /\ sus_features[1].has_suspicious_domain = StatedRuleValue(sus_domain)
    /\ DomainExistsWhenNonEmpty

\* C25 amended: for every non-empty domain has_suspicious_domain is the value
\* of the first stated rule that matches (0 when none does); for the empty
\* domain it is 1; domain_exists is 1 exactly for a non-empty domain.
C25_RuleOrderForNonEmptyDomain ==
  DomainScored =>
    /\ sus_domain # "" =>
         sus_features[1].has_suspicious_domain = StatedRuleValue(sus_domain)
    /\ sus_domain = "" => sus_features[1].has_suspicious_domain = Scale
    /\ DomainExistsWhenNonEmpty

\* a disposable-mail domain under a suspicious ending has been scored 0.8
C25_DisposableUnderBadEndingScored ==
  /\ DomainScored
  /\ sus_domain = "mailinator.tk"
  /\ sus_features[1].has_suspicious_domain = 8 * (Scale \div 10)
  /\ sus_features[1].domain_exists = 1

\* ------------------------------------------------------------------------
\* Claims about POST /api/analyze
\* ------------------------------------------------------------------------

\* the last request was a POST /api/analyze whose job_input is a string and
\* whose input_type is "auto", given or by default
AutoRequest ==
  /\ http_last # <<>>
  /\ http_last[1].route = "/api/analyze"
  /\ http_last[1].body.kind = "json"
  /\ http_last[1].body.value.json = "object"
  /\ "job_input" \in DOMAIN http_last[1].body.value.fields
  /\ http_last[1].body.value.fields["job_input"].json = "string"
  /\ \/ "input_type" \notin DOMAIN http_last[1].body.value.fields
     \/ http_last[1].body.value.fields["input_type"] = Str("auto")

\* the job_input of that request, stripped
AutoInput == Strip(http_last[1].body.value.fields["job_input"].str)

\* a description: 50 characters or more, not beginning as a URL does
IsDescription(text) ==
  /\ Len(text) >= 50
  /\ ~StartsWith(text, "http://")
  /\ ~StartsWith(text, "https://")
  /\ ~StartsWith(text, "www.")

\* C26: with input_type "auto", a job_input of 50 characters or more that
\* does not begin with http://, https:// or www. is analysed as text, once,
\* and the reply is not a 400.
C26_AutoDescriptionAnalysedAsText ==
  (AutoRequest /\ IsDescription(AutoInput)) =>
    /\ http_last[1].reply.status # 400
    /\ http_last[1].reply.analyses = 1
    /\ http_last[1].reply.payload.url = "N/A"

\* ------------------------------------------------------------------------
\* Claims about the severity _analyze_job_data reports
\* ------------------------------------------------------------------------

PostingAssessed == feat_result # <<>>

\* the labels extract_red_flags raises for the posting
RaisedByExtraction ==
  extract_red_flags(Lookup(feat_job_data, "description", ""),
                    Lookup(feat_job_data, "requirements", ""),
                    Lookup(feat_job_data, "salary", ""))

\* C27: no assessment _analyze_job_data makes carries a finding labelled
\* suspicious_email, spam_phrase or unrealistic_salary, and its
\* red_flags_severity is High exactly when the confidence is above 0.8.
C27_SeverityHighOnlyByConfidence ==
  PostingAssessed =>
    /\ \A j \in 1..Len(feat_result[1].red_flags_list) :
         feat_result[1].red_flags_list[j] \notin severity_critical_flags
    /\ feat_result[1].red_flags_list = feat_features[1].red_flags
    /\ (feat_result[1].red_flags_severity = "High")
         <=> (feat_result[1].combined_confidence > 80 * Scale)

\* a posting for which extract_red_flags raised the three labels was assessed
\* at a severity below High
C27_CriticalLabelsRaisedNotHigh ==
  /\ PostingAssessed
  /\ \A label \in severity_critical_flags :
       \E j \in 1..Len(RaisedByExtraction) : RaisedByExtraction[j] = label
  /\ feat_result[1].red_flags_severity # "High"

\* ------------------------------------------------------------------------
\* Claims about verify_company_legitimacy
\* ------------------------------------------------------------------------

Verified == legit_report # <<>>

\* the age the lookup gave is below 30 days
YoungerThanThirtyDays ==
  /\ ~NoDomain(legit_domain)
  /\ legit_lookup.whois = "date"
  /\ legit_lookup.age_days < 30

\* the company name and the first label of the domain overlap
NameOverlapsDomain ==
  /\ legit_company # ""
  /\ ~NoDomain(legit_domain)
  /\ \/ Contains(DomainLower(legit_domain), CompanyLower(legit_company))
     \/ Contains(CompanyLower(legit_company), DomainLower(legit_domain))

\* the company name contains a common business word
NameHasBusinessWord ==
  /\ legit_company # ""
  /\ \E j \in 1..Len(common_words) : Contains(CompanyLower(legit_company), common_words[j])

ScoreWithinTwentyAndHundred ==
  /\ legit_report[1].score >= 20
  /\ legit_report[1].score <= 100
  /\ legit_report[1].legitimacy_level # "LIKELY_FAKE"

\* C29 as stated: the score lies in [20,100], LIKELY_FAKE is never returned,
\* and the tier is SUSPICIOUS only when the domain is less than 30 days old
\* and the company name neither overlaps the domain nor contains a common
\* business word.
C29_SuspiciousOnlyWithoutBusinessWord ==
  Verified =>
    /\ ScoreWithinTwentyAndHundred
    /\ legit_report[1].legitimacy_level = "SUSPICIOUS" =>
         /\ YoungerThanThirtyDays
         /\ ~NameOverlapsDomain
         /\ ~NameHasBusinessWord

\* C29 amended: the score lies in [20,100], LIKELY_FAKE is never returned,
\* and the tier is SUSPICIOUS exactly when the domain is less than 30 days
\* old and the company name does not overlap the domain; the score is then
\* 30 when the name contains a common business word and 20 when it does not.
C29_SuspiciousOnlyWithoutOverlap ==
  Verified =>
    /\ ScoreWithinTwentyAndHundred
    /\ (legit_report[1].legitimacy_level = "SUSPICIOUS")
         <=> (YoungerThanThirtyDays /\ ~NameOverlapsDomain)
    /\ legit_report[1].legitimacy_level = "SUSPICIOUS" =>
         legit_report[1].score = (IF NameHasBusinessWord THEN 30 ELSE 20)

\* a company whose name has a business word and does not overlap its domain,
\* registered less than 30 days ago, was returned as SUSPICIOUS with score 30
C29_BusinessWordStillSuspicious ==
  /\ Verified
  /\ YoungerThanThirtyDays
  /\ NameHasBusinessWord
  /\ legit_report[1].legitimacy_level = "SUSPICIOUS"
  /\ legit_report[1].score = 30

\* ------------------------------------------------------------------------
\* Claims about get_analyzer
\* ------------------------------------------------------------------------

\* the JobAnalyzer objects constructed so far
Constructed == {w \in Workers : instances[w] # Unbound}

\* C30: get_analyzer constructs at most one JobAnalyzer, and all the calls
\* that have got an analyzer hold the same one, whatever the interleaving of
\* the first calls.
C30_OneAnalyzerForAllCallers ==
  /\ Cardinality(Constructed) <= 1
  /\ \A v, w \in Workers :
       (frames[v].self # "None" /\ frames[w].self # "None")
         => frames[v].self = frames[w].self
====
